---------------------------- MODULE Spec2Model ----------------------------
(***************************************************************************)
(* Entity linking engine of the reasoning service: the two knowledge-base  *)
(* lookup clients (TTL cache, rate limiter, external calls), the           *)
(* disambiguator and the linker with its batch statistics.                 *)
(*                                                                         *)
(* Conventions:                                                            *)
(*   - a Python str is a sequence of one-character strings;                *)
(*   - a client's confidence and the disambiguator's type, name and       *)
(*     context scores are integers in thousandths (1000 stands for 1.0);   *)
(*     the disambiguator's final score, its confidence and min_confidence  *)
(*     are integers in millionths (1000000 stands for 1.0);                *)
(*   - time is an integer number of half seconds.                          *)
(***************************************************************************)
EXTENDS Integers, Sequences, FiniteSets, TLC

VARIABLES
    now,                \* the clock (time.time() and the cache's timer)
    cache,              \* per client: the TTLCache, least recently used first
    last_request_time,  \* per client: _last_request_time
    heap,               \* the SearchResult objects built by search
    call,               \* the last search call of a client and what it did
    sources,            \* link_batch's arguments
    min_confidence,
    max_candidates,
    entities,
    linked_entities,    \* link_batch's locals
    stats,
    pc,                 \* where link_batch is
    link,               \* the last link_entity call and what it did
    threads             \* the concurrent search calls: where each one is

vars == <<now, cache, last_request_time, heap, call, sources, min_confidence,
          max_candidates, entities, linked_entities, stats, pc, link,
          threads>>

batchVars == <<sources, min_confidence, max_candidates, entities,
               linked_entities, stats, pc, link>>

(***************************************************************************)
(* Bounds of the model.                                                    *)
(***************************************************************************)
\* cache_maxsize as passed to the clients' constructor (default 1000).
cache_maxsize == 1
\* cache_ttl as passed to the clients' constructor, in half seconds
\* (default 86400 s).
cache_ttl == 3
\* The clock is not advanced by Tick beyond this.
MaxTime == 5
\* At most this many searches are made on a client.
MaxCalls == 3
\* link_batch is given at most this many mentions.
MaxBatch == 2
\* At most this many half seconds pass between "key in cache" and the read
\* of the entry.
MaxGap == 1
\* The number of threads that call search concurrently.
MaxThreads == 2

(***************************************************************************)
(* Program constants.                                                      *)
(***************************************************************************)
\* WikidataClient.MIN_REQUEST_INTERVAL = 1.0 s, in half seconds.
WIKIDATA_MIN_REQUEST_INTERVAL == 2
\* DBpediaClient.MIN_REQUEST_INTERVAL = 0.5 s, in half seconds.
DBPEDIA_MIN_REQUEST_INTERVAL == 1
\* time.sleep(5) after an HTTP 429, in half seconds.
RETRY_SLEEP == 10
\* MAX_CANDIDATES of both clients.
MAX_CANDIDATES == 5
\* The type match bonus of _calculate_confidence (0.1).
TYPE_BONUS == 100
\* The alias bonus of WikidataClient._calculate_confidence (0.1).
ALIAS_BONUS == 100
\* The cap of the popularity bonus of DBpediaClient._calculate_confidence.
POPULARITY_CAP == 150
\* The clock when the clients are constructed (time.time() is far from 0.0).
StartTime == 2

\* Python's None, where a name or a message is expected.
None == "None"
\* Python's None, where a str is expected.
NoStr == <<"None">>
\* A value that is no str (a dict, say), where a str is expected.
NotAStr == <<"dict">>
Clients == {"wikidata", "dbpedia"}

Min(S) == CHOOSE x \in S : \A y \in S : x <= y
Max(S) == CHOOSE x \in S : \A y \in S : x >= y
MinOf(a, b) == IF a <= b THEN a ELSE b
MaxOf(a, b) == IF a >= b THEN a ELSE b

(***************************************************************************)
(* Strings.                                                                *)
(***************************************************************************)
\* str.lower() on one character.
LowerCh(ch) ==
    CASE ch = "A" -> "a" [] ch = "B" -> "b" [] ch = "C" -> "c"
      [] ch = "E" -> "e" [] ch = "F" -> "f" [] ch = "I" -> "i"
      [] ch = "P" -> "p" [] ch = "U" -> "u"
      [] OTHER -> ch

Lower(s) == [i \in 1..Len(s) |-> LowerCh(s[i])]

\* str.strip()
Strip(s) ==
    LET keep == {i \in 1..Len(s) : s[i] # " "}
    IN  IF keep = {} THEN <<>> ELSE SubSeq(s, Min(keep), Max(keep))

\* A test that takes a query of blanks for a query.
IsEmptyQuery_unstripped(q) == q = NoStr \/ q = <<>>

\* "not query or not query.strip()"
IsEmptyQuery(q) == q = NoStr \/ Strip(q) = <<>>

(***************************************************************************)
(* The external services' answers.  A document is named by an id; Doc      *)
(* gives what the service says about it.                                   *)
(***************************************************************************)
\* label: the label; fuzzy: the rapidfuzz blend 0.4/0.4/0.2 of a text that
\* is not the label, against the label; alias_close: whether one of the
\* aliases is within ratio 0.9 of the query; aliases: the aliases;
\* ref_count: DBpedia's refCount; types: DBpedia's type list (the class
\* names); description: a str, NoStr when the service gives none, or
\* NotAStr when the field is no string.
Doc(d) ==
    CASE d = "Q1" -> [label |-> <<"E", "P", "A">>, fuzzy |-> 600,
                      alias_close |-> FALSE, aliases |-> <<>>,
                      ref_count |-> 0, types |-> <<>>,
                      description |->
                          <<"u", "s", " ", "a", "g", "e", "n", "c", "y">>]
      [] d = "Q2" -> [label |-> <<"E", "p", " ", "P", "a", " ", "A", "b">>,
                      fuzzy |-> 400, alias_close |-> TRUE,
                      aliases |-> << <<"E", "P", "A">> >>,
                      ref_count |-> 0, types |-> <<>>,
                      description |-> NoStr]
      [] d = "Q3" -> [label |-> <<"e", "p", "a">>, fuzzy |-> 500,
                      alias_close |-> FALSE, aliases |-> <<>>,
                      ref_count |-> 0, types |-> <<>>,
                      description |-> NotAStr]
      [] d = "R1" -> [label |-> <<"E", "P", "A">>, fuzzy |-> 600,
                      alias_close |-> FALSE, aliases |-> <<>>,
                      ref_count |-> 50, types |-> <<"GovernmentAgency">>,
                      description |->
                          <<"u", "s", " ", "a", "g", "e", "n", "c", "y">>]
      [] d \in {"Q4", "R3"} ->
                     [label |-> <<"E", "P", "B">>, fuzzy |-> 700,
                      alias_close |-> FALSE, aliases |-> <<>>,
                      ref_count |-> 0, types |-> <<>>,
                      description |-> NoStr]
      [] d \in {"Q5", "R4"} ->
                     [label |-> <<"P", "A", "C">>, fuzzy |-> 200,
                      alias_close |-> FALSE, aliases |-> <<>>,
                      ref_count |-> 10, types |-> <<>>,
                      description |-> NoStr]
      [] d \in {"Q6", "R5"} ->
                     [label |-> <<"E", "P", "A", "C">>, fuzzy |-> 800,
                      alias_close |-> FALSE, aliases |-> <<>>,
                      ref_count |-> 0, types |-> <<>>,
                      description |-> NoStr]
      [] d = "R6" -> [label |-> <<"A", "B", "C">>, fuzzy |-> 450,
                      alias_close |-> FALSE, aliases |-> <<>>,
                      ref_count |-> 400, types |-> <<"Organisation">>,
                      description |-> NoStr]
      [] d = "Q7" -> [label |-> <<"E", "P", "A", "C">>, fuzzy |-> 800,
                      alias_close |-> TRUE,
                      aliases |-> << <<"E", "P", "A">> >>,
                      ref_count |-> 0, types |-> <<>>,
                      description |-> NoStr]
      [] d = "R7" -> [label |-> <<"F", "B", "I">>, fuzzy |-> 300,
                      alias_close |-> FALSE, aliases |-> <<>>,
                      ref_count |-> 50, types |-> <<"GovernmentAgency">>,
                      description |->
                          <<"u", "s", " ", "a", "g", "e", "n", "c", "y">>]
      [] OTHER    -> [label |-> <<"U", "b", "c">>, fuzzy |-> 300,
                      alias_close |-> FALSE, aliases |-> <<>>,
                      ref_count |-> 1000, types |-> <<"Person">>,
                      description |-> NoStr]

\* What one HTTP request comes to: "fail" (timeout, transport error, non-2xx
\* status), "r429" (HTTP 429), "ok" (a well-formed answer naming docs),
\* "malformed" (a 2xx answer whose entries are not objects), "unused" (the
\* request is not made).
Outcome(kind, docs) == [kind |-> kind, docs |-> docs]
Unused == Outcome("unused", <<>>)

\* Answers of more entries than a result keeps.
LongWikidataDocs == <<"Q5", "Q2", "Q4", "Q1", "Q6", "Q3">>
LongDBpediaDocs == <<"R2", "R4", "R1", "R3", "R5", "R6">>

WikidataDocLists ==
    {<<"Q1">>, <<"Q2", "Q1">>, <<"Q1", "Q3">>, <<"Q7">>, LongWikidataDocs}
DBpediaDocLists ==
    {<<"R1">>, <<"R2">>, <<"R2", "R1">>, <<"R7">>, LongDBpediaDocs}

\* The answers to the requests of one search: the first request (the
\* wbsearchentities API, or the DBpedia lookup), the SPARQL fallback request
\* and its retry after a 429.
Script(first, sparql, retry) ==
    [first |-> first, sparql |-> sparql, retry |-> retry]

WikidataScripts ==
    {Script(Outcome("ok", ds), Unused, Unused) : ds \in WikidataDocLists}
    \cup {Script(Outcome("malformed", <<"Q1">>), Unused, Unused),
          Script(Outcome("fail", <<>>), Outcome("fail", <<>>), Unused),
          Script(Outcome("ok", <<>>), Outcome("ok", <<>>), Unused),
          Script(Outcome("fail", <<>>), Outcome("ok", <<"Q1">>), Unused),
          Script(Outcome("fail", <<>>), Outcome("r429", <<>>),
                 Outcome("ok", <<"Q1">>))}

DBpediaScripts ==
    {Script(Outcome("ok", ds), Unused, Unused) :
        ds \in DBpediaDocLists \cup {<<>>}}
    \cup {Script(Outcome("fail", <<>>), Unused, Unused),
          Script(Outcome("malformed", <<"R1">>), Unused, Unused)}

\* The message of the AttributeError raised on an entry that is no object.
MalformedMessage == "'str' object has no attribute 'get'"

(***************************************************************************)
(* cachetools.TTLCache, as the clients use it.  The cache is a sequence of *)
(* entries [key, ref, expires], least recently used first.                 *)
(***************************************************************************)
HasKey(es, key) == \E i \in 1..Len(es) : es[i].key = key
EntryOf(es, key) == es[CHOOSE i \in 1..Len(es) : es[i].key = key]
Without(es, key) == SelectSeq(es, LAMBDA e : e.key # key)

\* "key in cache": the entry is there and has not expired at time t.
CacheContains(es, key, t) == HasKey(es, key) /\ t < EntryOf(es, key).expires

\* "cache[key]" at time t: the value, the entry now the most recently
\* used; KeyError when the key is absent or the entry has expired.
CacheGetRaises(es, key, t) == ~CacheContains(es, key, t)
CacheGetValue(es, key) == EntryOf(es, key).ref
CacheGetMoved(es, key) == Append(Without(es, key), EntryOf(es, key))

\* expire(t): the entries that have expired are removed.
CacheExpire(es, t) == SelectSeq(es, LAMBDA e : t < e.expires)

\* popitem() until a new entry fits: the least recently used go.
RECURSIVE CacheMakeRoom(_)
CacheMakeRoom(es) ==
    IF Len(es) + 1 > cache_maxsize /\ Len(es) > 0
    THEN CacheMakeRoom(Tail(es)) ELSE es

\* "cache[key] = ref" at time t.
CacheSet(es, key, ref, t) ==
    LET live == CacheExpire(es, t)
        room == IF HasKey(live, key) THEN live ELSE CacheMakeRoom(live)
    IN  Append(Without(room, key),
               [key |-> key, ref |-> ref, expires |-> t + cache_ttl])

\* The keys that "cache[key] = ref" at time t evicts for the size cap.
CacheEvicted(es, key, t) ==
    LET live == CacheExpire(es, t)
        after == CacheSet(es, key, 0, t)
    IN  {live[i].key : i \in 1..Len(live)}
          \ {after[i].key : i \in 1..Len(after)}

(***************************************************************************)
(* The lookup clients: WikidataClient and DBpediaClient.                   *)
(***************************************************************************)
MIN_REQUEST_INTERVAL(client) ==
    IF client = "wikidata" THEN WIKIDATA_MIN_REQUEST_INTERVAL
    ELSE DBPEDIA_MIN_REQUEST_INTERVAL

\* _get_cache_key: the md5 of "<client>:<type or any>:<query.lower().strip()>"
\* (the digest is taken to be injective, so the key is the triple).
\* A cache key made of the query as given.
get_cache_key_as_given(client, query, entity_type) ==
    <<client, IF entity_type = None THEN "any" ELSE entity_type, query>>

get_cache_key(client, query, entity_type) ==
    <<client,
      IF entity_type # None THEN entity_type ELSE "any",
      Strip(Lower(query))>>

\* A rate limiter that stamps the time and never sleeps.
rate_limit_without_sleep(client, m) == [m EXCEPT !.last = m.now]

\* A client's clock and rate limiter during one call: m.now, m.last
\* (_last_request_time) and m.reqs, the HTTP requests issued so far.
\* _rate_limit: sleep until MIN_REQUEST_INTERVAL has passed since m.last.
rate_limit(client, m) ==
    LET elapsed == m.now - m.last
        woke == IF elapsed < MIN_REQUEST_INTERVAL(client)
                THEN m.now + (MIN_REQUEST_INTERVAL(client) - elapsed)
                ELSE m.now
    IN  [m EXCEPT !.now = woke, !.last = woke]

\* self._client.get(...)
http_get(m, endpoint) ==
    [m EXCEPT !.reqs = Append(@, [at |-> m.now, to |-> endpoint])]

\* _use_wbsearchentities_api: the clock after it (its answer is script.first).
use_wbsearchentities_api(m) == http_get(rate_limit("wikidata", m), "api")

\* DBpediaClient._execute_search: the clock after it.
execute_search(m) == http_get(rate_limit("dbpedia", m), "lookup")

\* _execute_sparql: the clock after it; on a 429 it sleeps 5 s, rate-limits
\* and asks once more.
execute_sparql(m, script) ==
    LET m1 == http_get(rate_limit("wikidata", m), "sparql")
    IN  IF script.sparql.kind = "r429"
        THEN http_get(rate_limit("wikidata",
                                 [m1 EXCEPT !.now = @ + RETRY_SLEEP]),
                      "sparql")
        ELSE m1

\* _execute_sparql: what it returns.
sparql_result(script) ==
    IF script.sparql.kind = "r429" THEN script.retry ELSE script.sparql

\* The base score of both _calculate_confidence: 1.0 on an exact match of
\* the lowered, stripped strings, else the fuzzy blend.
base_score(query, d) ==
    IF Strip(Lower(query)) = Strip(Lower(Doc(d).label)) THEN 1000
    ELSE Doc(d).fuzzy

\* WikidataClient._calculate_confidence
wikidata_calculate_confidence(query, d, with_aliases, type_match) ==
    LET alias_bonus == IF with_aliases /\ Doc(d).alias_close
                       THEN ALIAS_BONUS ELSE 0
        type_bonus == IF type_match THEN TYPE_BONUS ELSE 0
    IN  MinOf(1000, base_score(query, d) + alias_bonus + type_bonus)

\* DBpediaClient._calculate_confidence
dbpedia_calculate_confidence(query, d, type_match, max_ref_count) ==
    LET ref_count == Doc(d).ref_count
        popularity_bonus ==
            IF ref_count > 0
            THEN MinOf((ref_count * 1000) \div max_ref_count, POPULARITY_CAP)
            ELSE 0
        type_bonus == IF type_match THEN TYPE_BONUS ELSE 0
    IN  MinOf(1000, base_score(query, d) + popularity_bonus + type_bonus)

\* candidates.sort(key=confidence, reverse=True): stable, descending.
RECURSIVE InsertByConfidence(_, _)
InsertByConfidence(sorted, c) ==
    IF sorted = <<>> THEN <<c>>
    ELSE IF Head(sorted).confidence >= c.confidence
         THEN <<Head(sorted)>> \o InsertByConfidence(Tail(sorted), c)
         ELSE <<c>> \o sorted

\* A sort that leaves the candidates in the order of the answer.
in_answer_order(cs) == cs

RECURSIVE sort_by_confidence(_)
sort_by_confidence(cs) ==
    IF cs = <<>> THEN <<>>
    ELSE InsertByConfidence(sort_by_confidence(SubSeq(cs, 1, Len(cs) - 1)),
                            cs[Len(cs)])

\* A result that keeps every candidate.
keep_all_results(cs) == cs

\* candidates[:MAX_CANDIDATES]
limit_results(cs) == SubSeq(cs, 1, MinOf(Len(cs), MAX_CANDIDATES))

\* The candidates WikidataClient.search builds from the API's items.
wikidata_api_candidates(query, entity_type, docs) ==
    [i \in 1..Len(docs) |->
        [doc |-> docs[i], path |-> "api",
         confidence |-> wikidata_calculate_confidence(
                            query, docs[i], TRUE, entity_type = None)]]

\* The candidates WikidataClient.search builds from the SPARQL bindings.
wikidata_sparql_candidates(query, entity_type, docs) ==
    [i \in 1..Len(docs) |->
        [doc |-> docs[i], path |-> "sparql",
         confidence |-> wikidata_calculate_confidence(
                            query, docs[i], FALSE, entity_type # None)]]

\* _parse_response and the confidence loop of DBpediaClient.search.
dbpedia_candidates(query, entity_type, docs) ==
    LET max_ref == IF docs = <<>> THEN 1
                   ELSE Max({Doc(docs[i]).ref_count : i \in 1..Len(docs)})
    IN  [i \in 1..Len(docs) |->
            [doc |-> docs[i], path |-> "lookup",
             confidence |-> dbpedia_calculate_confidence(
                                query, docs[i], entity_type # None,
                                MaxOf(max_ref, 1))]]

\* A SearchResult.  client, key, at (when it was built) and ok (whether an
\* external request of the search succeeded) are bookkeeping.
SearchResult(client, query, entity_type, candidates, error, at, ok) ==
    [query |-> query, entity_type |-> entity_type, candidates |-> candidates,
     from_cache |-> FALSE, error |-> error,
     client |-> client,
     key |-> IF IsEmptyQuery(query) THEN <<>>
             ELSE get_cache_key(client, query, entity_type),
     at |-> at, ok |-> ok]

\* What a search of a client comes to: the clock, the rate limiter, the
\* cache and the heap after it, the requests it issued, what it returned
\* (ref: the object's place in the heap, 0 for an object that is not kept;
\* obj: the object as it is when search returns) or the message of the
\* exception it raised, and the keys its store evicted.
SearchDone(m, es, hp, ref, obj, raised, evicted) ==
    [now |-> m.now, last |-> m.last, reqs |-> m.reqs, cache |-> es,
     heap |-> hp, ref |-> ref, obj |-> obj, raised |-> raised,
     evicted |-> evicted]

NoObj == SearchResult(None, NoStr, None, <<>>, None, 0, FALSE)

\* A tail that reports a failed lookup in the result's error field.
store_and_return_with_error(client, m, es, hp, query, entity_type, candidates, ok) ==
    LET key == get_cache_key(client, query, entity_type)
        result == SearchResult(client, query, entity_type, candidates,
                               IF ok THEN None ELSE "Lookup failed",
                               m.now, ok)
        ref == Len(hp) + 1
    IN  SearchDone(m, CacheSet(es, key, ref, m.now), Append(hp, result),
                   ref, result, None, CacheEvicted(es, key, m.now))

\* The tail of both search methods: build the result, store it in the
\* cache, return it.
store_and_return(client, m, es, hp, query, entity_type, candidates, ok) ==
    LET key == get_cache_key(client, query, entity_type)
        result == SearchResult(client, query, entity_type, candidates,
                               None, m.now, ok)
        ref == Len(hp) + 1
    IN  SearchDone(m, CacheSet(es, key, ref, m.now), Append(hp, result),
                   ref, result, None, CacheEvicted(es, key, m.now))

\* The cache hit of both search methods; the entry is read gap half seconds
\* after "key in cache" found it.
cache_hit(m, es, hp, key, gap) ==
    LET m1 == [m EXCEPT !.now = @ + gap]
    IN  IF CacheGetRaises(es, key, m1.now)
        THEN SearchDone(m1, es, hp, 0, NoObj, "KeyError", {})
        ELSE LET ref == CacheGetValue(es, key)
                 hp1 == [hp EXCEPT ![ref].from_cache = TRUE]
             IN  SearchDone(m1, CacheGetMoved(es, key), hp1, ref, hp1[ref],
                            None, {})

\* A search that goes on to SPARQL only when the API request failed.
wikidata_lookup_fallback_on_failure(m, es, hp, query, entity_type, script) ==
    LET m1 == use_wbsearchentities_api(m)
        api == script.first
        api_results == api.kind \in {"ok", "malformed"}
        m2 == IF api_results THEN m1 ELSE execute_sparql(m1, script)
        sparql == sparql_result(script)
        raises == IF api_results
                  THEN api.kind = "malformed" /\ api.docs # <<>>
                  ELSE sparql.kind = "malformed"
        candidates ==
            IF api_results
            THEN wikidata_api_candidates(query, entity_type, api.docs)
            ELSE IF sparql.kind = "ok"
                 THEN wikidata_sparql_candidates(query, entity_type,
                                                 sparql.docs)
                 ELSE <<>>
        ok == api.kind = "ok" \/ (~api_results /\ sparql.kind = "ok")
    IN  IF raises
        THEN SearchDone(m2, es, hp, 0, NoObj, MalformedMessage, {})
        ELSE store_and_return("wikidata", m2, es, hp, query, entity_type,
                              limit_results(sort_by_confidence(candidates)),
                              ok)

\* WikidataClient.search after a cache miss.
wikidata_lookup(m, es, hp, query, entity_type, script) ==
    LET m1 == use_wbsearchentities_api(m)
        api == script.first
        api_results == api.kind \in {"ok", "malformed"} /\ api.docs # <<>>
        m2 == IF api_results THEN m1 ELSE execute_sparql(m1, script)
        sparql == sparql_result(script)
        raises == IF api_results THEN api.kind = "malformed"
                  ELSE sparql.kind = "malformed"
        candidates ==
            IF api_results
            THEN wikidata_api_candidates(query, entity_type, api.docs)
            ELSE IF sparql.kind = "ok"
                 THEN wikidata_sparql_candidates(query, entity_type,
                                                 sparql.docs)
                 ELSE <<>>
        ok == api.kind = "ok" \/ (~api_results /\ sparql.kind = "ok")
    IN  IF raises
        THEN SearchDone(m2, es, hp, 0, NoObj, MalformedMessage, {})
        ELSE store_and_return("wikidata", m2, es, hp, query, entity_type,
                              limit_results(sort_by_confidence(candidates)),
                              ok)

\* DBpediaClient.search after a cache miss.
dbpedia_lookup(m, es, hp, query, entity_type, script) ==
    LET m1 == execute_search(m)
        response == script.first
        candidates ==
            IF response.kind = "ok"
            THEN limit_results(sort_by_confidence(
                     dbpedia_candidates(query, entity_type, response.docs)))
            ELSE <<>>
    IN  IF response.kind = "malformed"
        THEN SearchDone(m1, es, hp, 0, NoObj, MalformedMessage, {})
        ELSE store_and_return("dbpedia", m1, es, hp, query, entity_type,
                              candidates, response.kind = "ok")

\* A search that looks in the cache whatever bypass_cache says.
takes_cache_ignoring_bypass(client, es, t, query, entity_type, bypass_cache) ==
    /\ ~IsEmptyQuery(query)
    /\ CacheContains(es, get_cache_key(client, query, entity_type), t)

\* Whether search takes the cache hit: "not bypass_cache and key in cache".
takes_cache(client, es, t, query, entity_type, bypass_cache) ==
    /\ ~IsEmptyQuery(query)
    /\ ~bypass_cache
    /\ CacheContains(es, get_cache_key(client, query, entity_type), t)

\* A search that stamps the rate limiter before it tests the query.
search_stamping_first(client, t, last, es, hp, query, entity_type, bypass_cache, gap, script) ==
    LET m == [now |-> t, last |-> t, reqs |-> <<>>]
    IN  IF IsEmptyQuery(query)
        THEN SearchDone(m, es, hp, 0,
                        SearchResult(client, query, entity_type, <<>>,
                                     "Empty query", t, FALSE),
                        None, {})
        ELSE IF takes_cache(client, es, t, query, entity_type, bypass_cache)
        THEN cache_hit(m, es, hp,
                       get_cache_key(client, query, entity_type), gap)
        ELSE IF client = "wikidata"
        THEN wikidata_lookup(m, es, hp, query, entity_type, script)
        ELSE dbpedia_lookup(m, es, hp, query, entity_type, script)

\* WikidataClient.search and DBpediaClient.search, called at time t with the
\* rate limiter at last, the cache es and the heap hp.
search(client, t, last, es, hp, query, entity_type, bypass_cache, gap, script) ==
    LET m == [now |-> t, last |-> last, reqs |-> <<>>]
    IN  IF IsEmptyQuery(query)
        THEN SearchDone(m, es, hp, 0,
                        SearchResult(client, query, entity_type, <<>>,
                                     "Empty query", t, FALSE),
                        None, {})
        ELSE IF takes_cache(client, es, t, query, entity_type, bypass_cache)
        THEN cache_hit(m, es, hp,
                       get_cache_key(client, query, entity_type), gap)
        ELSE IF client = "wikidata"
        THEN wikidata_lookup(m, es, hp, query, entity_type, script)
        ELSE dbpedia_lookup(m, es, hp, query, entity_type, script)

(***************************************************************************)
(* The disambiguator: DisambiguationService.  Its final scores and         *)
(* confidences are integers of millionths (1000000 stands for 1.0), so     *)
(* that the weighted sums of thousandths are exact.                        *)
(***************************************************************************)
CONFIDENCE_THRESHOLD == 700000
MATCH_THRESHOLD == 500000
CLOSE_SCORES == 100000
TYPE_WEIGHT == 400
NAME_WEIGHT == 300
CONTEXT_WEIGHT == 300
TYPE_WEIGHT_NO_CONTEXT == 500
NAME_WEIGHT_NO_CONTEXT == 500

UpperCh(ch) ==
    CASE ch = "a" -> "A" [] ch = "b" -> "B" [] ch = "c" -> "C"
      [] ch = "e" -> "E" [] ch = "f" -> "F" [] ch = "i" -> "I"
      [] ch = "p" -> "P" [] ch = "u" -> "U"
      [] OTHER -> ch

Upper(s) == [i \in 1..Len(s) |-> UpperCh(s[i])]
UpperLetters == {"A", "B", "C", "E", "F", "I", "P", "U"}
\* The characters [^\w\s-] of the model's texts.
Punctuation == {".", ",", "(", ")"}

\* str.split(): the words between runs of blanks.
RECURSIVE SplitFrom(_, _, _)
SplitFrom(s, word, words) ==
    IF s = <<>>
    THEN IF word = <<>> THEN words ELSE Append(words, word)
    ELSE IF Head(s) = " "
         THEN SplitFrom(Tail(s), <<>>,
                        IF word = <<>> THEN words ELSE Append(words, word))
         ELSE SplitFrom(Tail(s), Append(word, Head(s)), words)

Split(s) == SplitFrom(s, <<>>, <<>>)

\* " ".join(words)
RECURSIVE Join(_)
Join(words) ==
    IF words = <<>> THEN <<>>
    ELSE IF Len(words) = 1 THEN words[1]
    ELSE words[1] \o <<" ">> \o Join(Tail(words))

\* "a in b" on strings.
IsSubstr(a, b) ==
    \E i \in 0..(Len(b) - Len(a)) : SubSeq(b, i + 1, i + Len(a)) = a

\* _normalize_text
normalize_text(text) ==
    Join(Split(SelectSeq(Lower(text), LAMBDA ch : ch \notin Punctuation)))

\* _is_acronym
is_acronym(text) ==
    LET t == Strip(text)
    IN  /\ 2 <= Len(t) /\ Len(t) <= 6
        /\ \A i \in 1..Len(t) : t[i] \in UpperLetters

\* _matches_acronym
matches_acronym(acronym, full_name) ==
    LET acr == Upper(acronym)
        words == Split(full_name)
        initials == [i \in 1..Len(words) |-> UpperCh(words[i][1])]
    IN  \/ Len(words) >= Len(acr) /\ IsSubstr(acr, initials)
        \/ IsSubstr(<<"(">> \o acr \o <<")">>, Upper(full_name))

\* WIKIDATA_TYPE_MAPPINGS[expected_type], in thousandths; 0 for a type
\* that is not in it.
WikidataTypeWeight(expected_type, t) ==
    CASE expected_type = "person" ->
           (CASE t = "Q5" -> 1000 [] t = "Q215627" -> 800
              [] t = "Q36180" -> 700 [] t = "Q82955" -> 700 [] OTHER -> 0)
      [] expected_type = "organization" ->
           (CASE t = "Q43229" -> 1000 [] t = "Q4830453" -> 900
              [] t = "Q783794" -> 800 [] t = "Q163740" -> 800 [] OTHER -> 0)
      [] expected_type = "government_org" ->
           (CASE t = "Q327333" -> 1000 [] t = "Q7210356" -> 900
              [] t = "Q43229" -> 700 [] t = "Q7188" -> 800 [] OTHER -> 0)
      [] expected_type = "location" ->
           (CASE t = "Q515" -> 1000 [] t = "Q6256" -> 1000
              [] t = "Q82794" -> 900 [] t = "Q35657" -> 900
              [] t = "Q486972" -> 800 [] OTHER -> 0)
      [] OTHER ->
           (CASE t = "Q1190554" -> 1000 [] t = "Q1656682" -> 900
              [] t = "Q18669875" -> 800 [] OTHER -> 0)

\* DBPEDIA_TYPE_MAPPINGS[expected_type], in thousandths.
DBpediaTypeWeight(expected_type, t) ==
    CASE expected_type = "person" ->
           (CASE t = "Person" -> 1000 [] t = "Artist" -> 800
              [] t = "Politician" -> 800 [] t = "Writer" -> 800
              [] OTHER -> 0)
      [] expected_type = "organization" ->
           (CASE t = "Organisation" -> 1000 [] t = "Company" -> 900
              [] t = "Non-ProfitOrganisation" -> 800 [] OTHER -> 0)
      [] expected_type = "government_org" ->
           (CASE t = "GovernmentAgency" -> 1000 [] t = "Government" -> 900
              [] t = "Organisation" -> 700 [] OTHER -> 0)
      [] expected_type = "location" ->
           (CASE t = "Place" -> 1000 [] t = "City" -> 1000
              [] t = "Country" -> 1000 [] t = "PopulatedPlace" -> 900
              [] t = "AdministrativeRegion" -> 800 [] OTHER -> 0)
      [] OTHER ->
           (CASE t = "Event" -> 1000 [] t = "SportsEvent" -> 900
              [] t = "Election" -> 900 [] OTHER -> 0)

\* _score_type_match
score_type_match(expected_type, candidate_types, source) ==
    IF expected_type = None \/ candidate_types = <<>> THEN 500
    ELSE Max({0} \cup
             {IF source = "wikidata"
              THEN WikidataTypeWeight(expected_type, candidate_types[i])
              ELSE DBpediaTypeWeight(expected_type, candidate_types[i]) :
                  i \in 1..Len(candidate_types)})

\* _score_name_similarity
score_name_similarity(entity_text, d, candidate_aliases) ==
    LET n1 == normalize_text(entity_text)
        n2 == normalize_text(Doc(d).label)
        hits == {i \in 1..Len(candidate_aliases) :
                    \/ n1 = normalize_text(candidate_aliases[i])
                    \/ /\ is_acronym(entity_text)
                       /\ matches_acronym(entity_text, candidate_aliases[i])}
    IN  IF n1 = n2 THEN 1000
        ELSE IF is_acronym(entity_text)
                /\ matches_acronym(entity_text, Doc(d).label) THEN 950
        ELSE IF IsSubstr(n1, n2) \/ IsSubstr(n2, n1) THEN 850
        ELSE IF hits # {}
             THEN (IF n1 = normalize_text(candidate_aliases[Min(hits)])
                   THEN 950 ELSE 900)
        ELSE Doc(d).fuzzy

\* STOP_WORDS (those the model's texts can hold).
STOP_WORDS ==
    {<<"a">>, <<"a", "n">>, <<"t", "h", "e">>, <<"o", "f">>, <<"i", "n">>,
     <<"i", "s">>}

ContentWords(text) ==
    LET ws == Split(normalize_text(text))
    IN  {ws[i] : i \in 1..Len(ws)} \ STOP_WORDS

\* A context score that takes ten shared words for a full match.
score_context_similarity_by_ten(context, description) ==
    IF context = NoStr \/ context = <<>>
       \/ description = NoStr \/ description = <<>> THEN 500
    ELSE LET context_words == ContentWords(context)
             desc_words == ContentWords(description)
             overlap == Cardinality(context_words \cap desc_words)
         IN  IF desc_words = {} \/ context_words = {} THEN 500
             ELSE MinOf(1000, (overlap * 1000) \div 10)

\* _score_context_similarity, for a context and a description that are
\* strings; in thousandths.
score_context_similarity(context, description) ==
    IF context = NoStr \/ context = <<>>
       \/ description = NoStr \/ description = <<>> THEN 500
    ELSE LET context_words == ContentWords(context)
             desc_words == ContentWords(description)
             overlap == Cardinality(context_words \cap desc_words)
         IN  IF desc_words = {} \/ context_words = {} THEN 500
             ELSE MinOf(1000, (overlap * 1000) \div 5)

\* AMBIGUOUS_NAMES (its keys).
AMBIGUOUS_NAMES ==
    {<<"w", "a", "s", "h", "i", "n", "g", "t", "o", "n">>,
     <<"j", "o", "h", "n", "s", "o", "n">>,
     <<"c", "l", "i", "n", "t", "o", "n">>,
     <<"j", "a", "c", "k", "s", "o", "n">>,
     <<"l", "i", "n", "c", "o", "l", "n">>,
     <<"m", "a", "d", "i", "s", "o", "n">>,
     <<"c", "o", "n", "g", "r", "e", "s", "s">>,
     <<"s", "e", "n", "a", "t", "e">>,
     <<"s", "e", "c">>, <<"d", "o", "j">>, <<"f", "b", "i">>,
     <<"c", "i", "a">>}

\* _is_ambiguous_name
is_ambiguous_name(name) == normalize_text(name) \in AMBIGUOUS_NAMES

\* "context is not None and len(context.strip()) > 0"
HasContext(context) == context # NoStr /\ Strip(context) # <<>>

\* Candidate: label and description are those of Doc(id).
Candidate(id, types, aliases, source, original_confidence) ==
    [id |-> id, types |-> types, aliases |-> aliases, source |-> source,
     original_confidence |-> original_confidence,
     type_score |-> 0, name_score |-> 0, context_score |-> 0,
     final_score |-> 0]

\* A scoring that penalises every ambiguous name, with or without context.
scored_candidate_penalising_all(c, has_context, is_ambiguous, type_score, name_score, context_score) ==
    LET combined ==
            IF has_context
            THEN type_score * TYPE_WEIGHT + name_score * NAME_WEIGHT
                 + context_score * CONTEXT_WEIGHT
            ELSE type_score * TYPE_WEIGHT_NO_CONTEXT
                 + name_score * NAME_WEIGHT_NO_CONTEXT
    IN  [c EXCEPT !.type_score = type_score, !.name_score = name_score,
                  !.context_score = context_score,
                  !.final_score = IF is_ambiguous THEN (combined * 8) \div 10
                                  ELSE combined]

\* The combined score of disambiguate's scoring loop and the penalty for an
\* ambiguous name without context, written to the candidate.
scored_candidate(c, has_context, is_ambiguous, type_score, name_score, context_score) ==
    LET combined ==
            IF has_context
            THEN type_score * TYPE_WEIGHT + name_score * NAME_WEIGHT
                 + context_score * CONTEXT_WEIGHT
            ELSE type_score * TYPE_WEIGHT_NO_CONTEXT
                 + name_score * NAME_WEIGHT_NO_CONTEXT
        final_score ==
            IF is_ambiguous /\ ~has_context THEN (combined * 8) \div 10
            ELSE combined
    IN  [c EXCEPT !.type_score = type_score, !.name_score = name_score,
                  !.context_score = context_score,
                  !.final_score = final_score]

\* The body of disambiguate's scoring loop, for one candidate.
score_candidate(entity_text, entity_type, c, context) ==
    scored_candidate(c, HasContext(context), is_ambiguous_name(entity_text),
        score_type_match(entity_type, c.types, c.source),
        score_name_similarity(entity_text, c.id, c.aliases),
        IF HasContext(context)
        THEN score_context_similarity(context, Doc(c.id).description)
        ELSE 500)

\* A sort that puts a candidate ahead of those of equal score.
RECURSIVE InsertAheadOfEqual(_, _)
InsertAheadOfEqual(sorted, c) ==
    IF sorted = <<>> THEN <<c>>
    ELSE IF Head(sorted).final_score > c.final_score
         THEN <<Head(sorted)>> \o InsertAheadOfEqual(Tail(sorted), c)
         ELSE <<c>> \o sorted

\* candidates.sort(key=final_score, reverse=True): stable, descending.
RECURSIVE InsertByFinalScore(_, _)
InsertByFinalScore(sorted, c) ==
    IF sorted = <<>> THEN <<c>>
    ELSE IF Head(sorted).final_score >= c.final_score
         THEN <<Head(sorted)>> \o InsertByFinalScore(Tail(sorted), c)
         ELSE <<c>> \o sorted

RECURSIVE sort_by_final_score(_)
sort_by_final_score(cs) ==
    IF cs = <<>> THEN <<>>
    ELSE InsertByFinalScore(sort_by_final_score(SubSeq(cs, 1, Len(cs) - 1)),
                            cs[Len(cs)])

\* The message of the AttributeError _normalize_text raises on a
\* description that is no str.
NotAStrMessage == "'dict' object has no attribute 'lower'"

\* Whether disambiguate raises: scoring the context against a description
\* that is no str.
disambiguate_raises(candidates, context) ==
    /\ candidates # <<>>
    /\ HasContext(context)
    /\ \E i \in 1..Len(candidates) :
           Doc(candidates[i].id).description = NotAStr

DisambiguationResult(has_match, confidence, needs_review, is_ambiguous, all_candidates) ==
    [has_match |-> has_match, confidence |-> confidence,
     needs_review |-> needs_review, is_ambiguous |-> is_ambiguous,
     all_candidates |-> all_candidates]

\* A flag that looks at the best score only.
review_needed_by_score(ranked) ==
    ranked[1].final_score < CONFIDENCE_THRESHOLD

\* Whether disambiguate flags the ranked candidates for review.
review_needed(ranked) ==
    \/ ranked[1].final_score < CONFIDENCE_THRESHOLD
    \/ /\ Len(ranked) > 1
       /\ ranked[1].final_score - ranked[2].final_score < CLOSE_SCORES

\* Whether disambiguate emits the best candidate as the match.
match_emitted(ranked) == ranked[1].final_score >= MATCH_THRESHOLD

\* disambiguate from "Select best candidate": the result for the ranked
\* candidates.  The match, when there is one, is all_candidates[1].
select_best(ranked, is_ambiguous) ==
    DisambiguationResult(match_emitted(ranked), ranked[1].final_score,
                         review_needed(ranked), is_ambiguous, ranked)

\* DisambiguationService.disambiguate, when it does not raise.
disambiguate(entity_text, entity_type, candidates, context) ==
    IF candidates = <<>>
    THEN DisambiguationResult(FALSE, 0, TRUE, FALSE, <<>>)
    ELSE select_best(
             sort_by_final_score(
                 [i \in 1..Len(candidates) |->
                     score_candidate(entity_text, entity_type,
                                     candidates[i], context)]),
             is_ambiguous_name(entity_text))

(***************************************************************************)
(* The linker: EntityLinker.                                               *)
(***************************************************************************)
LinkingSources == {"wikidata", "dbpedia", "both"}
EntityTypes ==
    {"person", "organization", "government_org", "location", "event"}

\* str.lower() on the entity type names of the model, which are atomic.
TypeLower(entity_type) ==
    CASE entity_type = "Person" -> "person"
      [] entity_type = "GOVERNMENT_ORG" -> "government_org"
      [] OTHER -> entity_type

\* _map_entity_type: type_map.get(entity_type.lower())
map_entity_type(entity_type) ==
    IF TypeLower(entity_type) \in EntityTypes THEN TypeLower(entity_type)
    ELSE None

\* _map_to_wikidata_type
map_to_wikidata_type(entity_type) ==
    IF TypeLower(entity_type) \in EntityTypes THEN TypeLower(entity_type)
    ELSE None

\* _map_to_dbpedia_type
map_to_dbpedia_type(entity_type) ==
    IF TypeLower(entity_type) \in EntityTypes THEN TypeLower(entity_type)
    ELSE None

\* The message of the AttributeError entity_type.lower() raises on None.
NoneTypeMessage == "'NoneType' object has no attribute 'lower'"

\* _convert_wikidata_candidates: instance_of is never filled by the client;
\* the SPARQL path builds its candidates without aliases.
convert_wikidata_candidates(cs) ==
    [i \in 1..Len(cs) |->
        Candidate(cs[i].doc, <<>>,
                  IF cs[i].path = "api" THEN Doc(cs[i].doc).aliases
                  ELSE <<>>,
                  "wikidata", cs[i].confidence)]

\* _convert_dbpedia_candidates
convert_dbpedia_candidates(cs) ==
    [i \in 1..Len(cs) |->
        Candidate(cs[i].doc, Doc(cs[i].doc).types, <<>>, "dbpedia",
                  cs[i].confidence)]

\* LinkedEntity(text=..., entity_type=...) with the dataclass's defaults.
LinkedEntity(text, entity_type) ==
    [text |-> text, entity_type |-> entity_type, wikidata_id |-> None,
     wikidata_url |-> NoStr, dbpedia_uri |-> None, linking_confidence |-> 0,
     linking_source |-> None, linking_status |-> "not_found",
     needs_review |-> FALSE, is_ambiguous |-> FALSE, candidates |-> <<>>,
     error |-> None]

\* f"https://www.wikidata.org/wiki/{match.id}"
wikidata_url_of(id) == <<"https://www.wikidata.org/wiki/", id>>

\* Candidate.to_dict: the scores rounded to three places (thousandths).
to_dict(c) ==
    [id |-> c.id, types |-> c.types, aliases |-> c.aliases,
     source |-> c.source,
     scores |-> [type |-> c.type_score, name |-> c.name_score,
                 context |-> c.context_score,
                 final |-> (c.final_score + 500) \div 1000]]

\* seq[:n]
SliceTo(seq, n) ==
    IF n >= 0 THEN SubSeq(seq, 1, MinOf(n, Len(seq)))
    ELSE SubSeq(seq, 1, MaxOf(0, Len(seq) + n))

\* The clients as link_entity sees them: the clock, both caches, both rate
\* limiters and the heap.
World(t, caches, lasts, hp) ==
    [now |-> t, cache |-> caches, last |-> lasts, heap |-> hp]

\* self._wikidata.search(text, type) and self._dbpedia.search(text, type):
\* inp gives the gap of a cache hit and the script of a lookup.
client_search(w, client, text, entity_type, inp) ==
    search(client, w.now, w.last[client], w.cache[client], w.heap, text,
           entity_type, FALSE, inp.gap, inp.script)

\* The clients after the search r of client.
world_after(w, client, r) ==
    World(r.now, [w.cache EXCEPT ![client] = r.cache],
          [w.last EXCEPT ![client] = r.last], r.heap)

\* The inputs a search can take: the gap of a hit, the script of a lookup.
NoScript == Script(Unused, Unused, Unused)
NoInput == [gap |-> 0, script |-> NoScript]
SearchInputs(scripts, client, t, es, query, entity_type, bypass_cache) ==
    IF IsEmptyQuery(query) THEN {NoInput}
    ELSE IF takes_cache(client, es, t, query, entity_type, bypass_cache)
    THEN {[gap |-> g, script |-> NoScript] : g \in 0..MaxGap}
    ELSE {[gap |-> 0, script |-> sc] : sc \in scripts}

\* How many candidates each client's search returned to link_entity; -1
\* for a search that was not made or did not return.
NothingReturned == [wikidata |-> -1, dbpedia |-> -1]

\* Whether link_entity queries Wikidata.
asks_wikidata(srcs) == srcs \in {"wikidata", "both"}

\* link_entity after the Wikidata search r, made with the clients w: the
\* clients after it, the message of the exception the search raised, the
\* candidates so far and the events so far.
wikidata_searched(w, r) ==
    IF r.raised # None
    THEN [world |-> world_after(w, "wikidata", r),
          raised |-> r.raised, candidates |-> <<>>,
          events |-> << <<"wikidata", "call">>, <<"wikidata", "raise">> >>,
          returned |-> NothingReturned]
    ELSE [world |-> world_after(w, "wikidata", r),
          raised |-> None,
          candidates |-> convert_wikidata_candidates(r.obj.candidates),
          events |-> << <<"wikidata", "call">>, <<"wikidata", "return">> >>,
          returned |-> [NothingReturned EXCEPT
                           !.wikidata = Len(r.obj.candidates)]]

\* link_entity up to the end of the Wikidata query.
wikidata_stage(w, text, entity_type, srcs, inp) ==
    IF ~asks_wikidata(srcs)
    THEN [world |-> w, raised |-> None, candidates |-> <<>>,
          events |-> <<>>, returned |-> NothingReturned]
    ELSE wikidata_searched(w,
             client_search(w, "wikidata", text,
                           map_to_wikidata_type(entity_type), inp))

\* A linker that queries DBpedia whenever the selection names it, whatever
\* Wikidata returned.
asks_dbpedia_unconditionally(srcs, s1) ==
    /\ s1.raised = None
    /\ srcs \in {"dbpedia", "both"}

\* Whether link_entity queries DBpedia after the Wikidata stage s1.
asks_dbpedia(srcs, s1) ==
    /\ s1.raised = None
    /\ \/ srcs = "dbpedia"
       \/ srcs = "both" /\ Len(s1.candidates) = 0

\* link_entity after the DBpedia search r that follows the stage s1.
dbpedia_searched(s1, r) ==
    IF r.raised # None
    THEN [world |-> world_after(s1.world, "dbpedia", r),
          raised |-> r.raised, candidates |-> s1.candidates,
          events |-> s1.events \o << <<"dbpedia", "call">>,
                                     <<"dbpedia", "raise">> >>,
          returned |-> s1.returned]
    ELSE [world |-> world_after(s1.world, "dbpedia", r),
          raised |-> None,
          candidates |->
              s1.candidates
              \o convert_dbpedia_candidates(r.obj.candidates),
          events |-> s1.events \o << <<"dbpedia", "call">>,
                                     <<"dbpedia", "return">> >>,
          returned |-> [s1.returned EXCEPT
                           !.dbpedia = Len(r.obj.candidates)]]

\* link_entity up to the end of the DBpedia query.
dbpedia_stage(s1, text, entity_type, srcs, inp) ==
    IF ~asks_dbpedia(srcs, s1) THEN s1
    ELSE dbpedia_searched(s1,
             client_search(s1.world, "dbpedia", text,
                           map_to_dbpedia_type(entity_type), inp))

\* An except clause that does not keep the message.
error_entity_without_message(text, entity_type, message) ==
    [LinkedEntity(text, entity_type) EXCEPT
        !.linking_status = "error", !.needs_review = TRUE]

\* The LinkedEntity of the except clause.
error_entity(text, entity_type, message) ==
    [LinkedEntity(text, entity_type) EXCEPT
        !.linking_status = "error", !.needs_review = TRUE,
        !.error = message]

\* A "not found" record that is not flagged for review.
not_found_entity_unflagged(text, entity_type) ==
    [LinkedEntity(text, entity_type) EXCEPT
        !.linking_confidence = 0, !.linking_status = "not_found"]

\* The LinkedEntity of "if not candidates".
not_found_entity(text, entity_type) ==
    [LinkedEntity(text, entity_type) EXCEPT
        !.linking_confidence = 0, !.linking_status = "not_found",
        !.needs_review = TRUE]

\* A status rule with a strict comparison.
status_of_strict(confidence, min_conf) ==
    IF confidence > min_conf THEN "linked" ELSE "needs_review"

\* "Determine status"
status_of(confidence, min_conf) ==
    IF confidence >= min_conf THEN "linked" ELSE "needs_review"

\* "Include candidates for review if needed"
review_candidates(dis, max_cands) ==
    IF dis.needs_review
    THEN LET kept == SliceTo(dis.all_candidates, max_cands)
         IN  [i \in 1..Len(kept) |-> to_dict(kept[i])]
    ELSE <<>>

\* A result that writes the match's id to the identifiers of both sources.
build_result_filling_both(text, entity_type, dis, min_conf, max_cands) ==
    LET e0 == [LinkedEntity(text, entity_type) EXCEPT
                  !.linking_confidence = dis.confidence,
                  !.needs_review = dis.needs_review,
                  !.is_ambiguous = dis.is_ambiguous]
        match == dis.all_candidates[1]
        e1 == IF ~dis.has_match THEN e0
              ELSE [e0 EXCEPT
                      !.linking_source = match.source,
                      !.wikidata_id = match.id,
                      !.wikidata_url = wikidata_url_of(match.id),
                      !.dbpedia_uri = match.id,
                      !.linking_status =
                          status_of(dis.confidence, min_conf)]
    IN  [e1 EXCEPT !.candidates = review_candidates(dis, max_cands)]

\* "Build result" to "return linked_entity"
build_result(text, entity_type, dis, min_conf, max_cands) ==
    LET e0 == [LinkedEntity(text, entity_type) EXCEPT
                  !.linking_confidence = dis.confidence,
                  !.needs_review = dis.needs_review,
                  !.is_ambiguous = dis.is_ambiguous]
        match == dis.all_candidates[1]
        e1 == IF ~dis.has_match THEN e0
              ELSE [e0 EXCEPT
                      !.linking_source = match.source,
                      !.wikidata_id =
                          IF match.source = "wikidata" THEN match.id ELSE @,
                      !.wikidata_url =
                          IF match.source = "wikidata"
                          THEN wikidata_url_of(match.id) ELSE @,
                      !.dbpedia_uri =
                          IF match.source = "dbpedia" THEN match.id ELSE @,
                      !.linking_status =
                          status_of(dis.confidence, min_conf)]
    IN  [e1 EXCEPT !.candidates = review_candidates(dis, max_cands)]

NoDis == DisambiguationResult(FALSE, 0, FALSE, FALSE, <<>>)

\* An exception caught by link_entity's except clause: which callee raised
\* it, and its message.
Caught(by, message) == [by |-> by, message |-> message]
NothingCaught == Caught(None, None)

\* What a link_entity call comes to: propagated is the message of the
\* exception that leaves link_entity (None when it returns), entity what it
\* returns, world the clients after it; events, returned, gathered (the
\* candidates converted from the searches' results), caught, disambiguated
\* and dis (the disambiguator's result) say what happened inside.
LinkDone(propagated, entity, w, events, returned, gathered, caught, disambiguated, dis) ==
    [propagated |-> propagated, entity |-> entity, world |-> w,
     events |-> events, returned |-> returned, gathered |-> gathered,
     caught |-> caught, disambiguated |-> disambiguated, dis |-> dis]

\* link_entity from "Build result", given the disambiguator's result.
link_entity_build(s2, dis, text, entity_type, min_conf, max_cands) ==
    LinkDone(None, build_result(text, entity_type, dis, min_conf, max_cands),
             s2.world, s2.events, s2.returned, s2.candidates,
             NothingCaught, TRUE, dis)

\* link_entity after the queries, whose outcome is s2.
link_entity_try(s2, text, entity_type, context, min_conf, max_cands) ==
    IF s2.raised # None
    THEN LinkDone(None, error_entity(text, entity_type, s2.raised),
                  s2.world, s2.events, s2.returned, s2.candidates,
                  Caught(s2.events[Len(s2.events)][1], s2.raised),
                  FALSE, NoDis)
    ELSE IF s2.candidates = <<>>
    THEN LinkDone(None, not_found_entity(text, entity_type), s2.world,
                  s2.events, s2.returned, s2.candidates, NothingCaught,
                  FALSE, NoDis)
    ELSE IF disambiguate_raises(s2.candidates, context)
    THEN LinkDone(None, error_entity(text, entity_type, NotAStrMessage),
                  s2.world, s2.events, s2.returned, s2.candidates,
                  Caught("disambiguator", NotAStrMessage), FALSE, NoDis)
    ELSE link_entity_build(s2,
             disambiguate(text, map_entity_type(entity_type),
                          s2.candidates, context),
             text, entity_type, min_conf, max_cands)

\* EntityLinker.link_entity
link_entity(w, text, entity_type, context, srcs, min_conf, max_cands, inp_w, inp_d) ==
    IF entity_type = None
    THEN LinkDone(NoneTypeMessage, LinkedEntity(text, entity_type), w,
                  <<>>, NothingReturned, <<>>, NothingCaught, FALSE,
                  NoDis)
    ELSE link_entity_try(
             dbpedia_stage(wikidata_stage(w, text, entity_type, srcs, inp_w),
                           text, entity_type, srcs, inp_d),
             text, entity_type, context, min_conf, max_cands)

\* A statistics update that leaves the errors out.
count_status_without_errors(st, status) ==
    CASE status = "linked" -> [st EXCEPT !.linked = @ + 1]
      [] status = "needs_review" -> [st EXCEPT !.needs_review = @ + 1]
      [] status = "not_found" -> [st EXCEPT !.not_found = @ + 1]
      [] OTHER -> st

\* The statistics update of link_batch's loop.
count_status(st, status) ==
    CASE status = "linked" -> [st EXCEPT !.linked = @ + 1]
      [] status = "needs_review" -> [st EXCEPT !.needs_review = @ + 1]
      [] status = "not_found" -> [st EXCEPT !.not_found = @ + 1]
      [] status = "error" -> [st EXCEPT !.errors = @ + 1]
      [] OTHER -> st

\* LinkingStatistics(total=n)
LinkingStatistics(n) ==
    [total |-> n, linked |-> 0, needs_review |-> 0, not_found |-> 0,
     errors |-> 0]

(***************************************************************************)
(* The inputs of the model.                                                *)
(***************************************************************************)
EPA == <<"E", "P", "A">>
FBI == <<"F", "B", "I">>
Blank == <<" ">>
SomeContext ==
    <<"t", "h", "e", " ", "u", "s", " ", "a", "g", "e", "n", "c", "y">>

OtherContext == <<"t", "h", "e", " ", "e", "p", "a">>

Mention(text, entity_type, context) ==
    [text |-> text, entity_type |-> entity_type, context |-> context]

\* The mention records link_batch is given: entity_type None is a record
\* whose "entity_type" is None.
Mentions ==
    {Mention(EPA, "government_org", NoStr),
     Mention(EPA, "Person", SomeContext),
     Mention(FBI, "GOVERNMENT_ORG", NoStr),
     Mention(FBI, "GOVERNMENT_ORG", SomeContext),
     Mention(FBI, "GOVERNMENT_ORG", OtherContext),
     Mention(FBI, "GOVERNMENT_ORG", Blank),
     Mention(Blank, "widget", NoStr),
     Mention(<<>>, "person", NoStr),
     Mention(EPA, None, NoStr)}

MentionLists == UNION {[1..n -> Mentions] : n \in 0..MaxBatch}
MinConfidences == {0, 700000, 1000000}
MaxCandidates == {1, 10}

\* The queries and types search is called with directly.
SearchArgs ==
    {<<EPA, None>>, <<<<" ", "e", "p", "A">>, None>>,
     <<EPA, "government_org">>, <<FBI, None>>, <<Blank, None>>}

\* The answers the searches of SpecClient receive.
CacheScripts(client) ==
    IF client = "wikidata"
    THEN {Script(Outcome("ok", <<"Q1">>), Unused, Unused),
          Script(Outcome("ok", <<"Q2", "Q1">>), Unused, Unused),
          Script(Outcome("fail", <<>>), Outcome("fail", <<>>), Unused),
          Script(Outcome("ok", <<>>), Outcome("ok", <<"Q1">>), Unused),
          Script(Outcome("malformed", <<"Q1">>), Unused, Unused)}
    ELSE {Script(Outcome("ok", <<"R1">>), Unused, Unused),
          Script(Outcome("ok", <<"R2", "R1">>), Unused, Unused),
          Script(Outcome("fail", <<>>), Unused, Unused),
          Script(Outcome("malformed", <<"R1">>), Unused, Unused)}

\* The queries and types of the searches on both clients.
BothArgs ==
    {<<EPA, None>>, <<FBI, "person">>, <<Blank, None>>, <<<<>>, "person">>}

\* The answers the searches on both clients receive: one request, the
\* SPARQL fallback, the retry after a 429.
BothScripts(client) ==
    IF client = "wikidata"
    THEN {Script(Outcome("ok", <<"Q1">>), Unused, Unused),
          Script(Outcome("ok", LongWikidataDocs), Unused, Unused),
          Script(Outcome("fail", <<>>), Outcome("ok", LongWikidataDocs),
                 Unused),
          Script(Outcome("fail", <<>>), Outcome("r429", <<>>),
                 Outcome("ok", <<"Q1">>))}
    ELSE {Script(Outcome("ok", <<"R1">>), Unused, Unused),
          Script(Outcome("ok", LongDBpediaDocs), Unused, Unused),
          Script(Outcome("fail", <<>>), Unused, Unused)}

NoCall ==
    [client |-> None, query |-> NoStr, entity_type |-> None,
     bypass_cache |-> FALSE, at |-> 0, live |-> FALSE, entry_before |-> 0,
     entry_after |-> 0, last_before |-> 0, last_after |-> 0,
     reqs |-> <<>>, ref |-> 0, obj |-> NoObj, raised |-> None,
     evicted |-> {}, n |-> 0, live_refs |-> {}, returned_at |-> 0,
     script |-> NoScript, cache_same |-> TRUE,
     issued |-> [c \in Clients |-> 0], issued_before |-> 0]

NoLink ==
    [mention |-> Mention(NoStr, None, NoStr), propagated |-> None,
     entity |-> LinkedEntity(NoStr, None), events |-> <<>>,
     returned |-> NothingReturned, gathered |-> <<>>,
     caught |-> NothingCaught, disambiguated |-> FALSE, dis |-> NoDis]

\* The entry of the cache es for key that is live at time t: its ref, or 0.
LiveRef(es, key, t) ==
    IF key # <<>> /\ CacheContains(es, key, t) THEN EntryOf(es, key).ref
    ELSE 0

\* The objects the entries of the cache es that are live at time t hold.
LiveRefs(es, t) ==
    {es[j].ref : j \in {k \in 1..Len(es) : t < es[k].expires}}

\* The threads that call search on the clients concurrently, and a thread
\* that has not called yet.  pc is where the thread is in search; stage is
\* the request it is about ("api", "sparql", "retry" of Wikidata, "lookup"
\* of DBpedia); wake is when its time.sleep ends and resume where it goes
\* on; reqs are the HTTP requests it has issued; ref is the result it
\* returned and raised the message of the exception that left search.
Threads == 1..MaxThreads
IdleThread ==
    [pc |-> "idle", client |-> None, query |-> NoStr, entity_type |-> None,
     bypass_cache |-> FALSE, script |-> NoScript, stage |-> None,
     wake |-> 0, resume |-> None, reqs |-> <<>>, ref |-> 0,
     raised |-> None]

(***************************************************************************)
(* The state machine.                                                      *)
(***************************************************************************)
Init ==
    /\ now = StartTime
    /\ cache = [c \in Clients |-> <<>>]
    /\ last_request_time = [c \in Clients |-> 0]
    /\ heap = <<>>
    /\ call = NoCall
    /\ sources = "both"
    /\ min_confidence = CONFIDENCE_THRESHOLD
    /\ max_candidates = 5
    /\ entities = <<>>
    /\ linked_entities = <<>>
    /\ stats = LinkingStatistics(0)
    /\ pc = "idle"
    /\ link = NoLink
    /\ threads = [t \in Threads |-> IdleThread]

\* Time passes.
Tick ==
    /\ now < MaxTime
    /\ now' = now + 1
    /\ UNCHANGED <<cache, last_request_time, heap, call, threads>>
    /\ UNCHANGED batchVars

\* client.search(query, entity_type, bypass_cache), answered by one of the
\* scripts.  call records the search: issued is, per client, when its last
\* HTTP request so far was issued (0: none yet), issued_before the same for
\* the client of the search before it.
SearchStep(client, query, entity_type, bypass_cache, scripts) ==
    /\ \E inp \in SearchInputs(scripts, client, now, cache[client], query,
                               entity_type, bypass_cache) :
        \E r \in {search(client, now, last_request_time[client],
                         cache[client], heap, query, entity_type,
                         bypass_cache, inp.gap, inp.script)},
           key \in {IF IsEmptyQuery(query) THEN <<>>
                    ELSE get_cache_key(client, query, entity_type)} :
            /\ now' = r.now
            /\ cache' = [cache EXCEPT ![client] = r.cache]
            /\ last_request_time' =
                   [last_request_time EXCEPT ![client] = r.last]
            /\ heap' = r.heap
            /\ call' = [client |-> client, query |-> query,
                        entity_type |-> entity_type,
                        bypass_cache |-> bypass_cache, at |-> now,
                        live |-> LiveRef(cache[client], key, now) # 0,
                        entry_before |-> LiveRef(cache[client], key, now),
                        entry_after |-> LiveRef(r.cache, key, r.now),
                        last_before |-> last_request_time[client],
                        last_after |-> r.last,
                        reqs |-> r.reqs, ref |-> r.ref, obj |-> r.obj,
                        raised |-> r.raised, evicted |-> r.evicted,
                        n |-> call.n + 1,
                        live_refs |-> LiveRefs(cache[client], now),
                        returned_at |-> r.now,
                        script |-> inp.script,
                        cache_same |-> r.cache = cache[client],
                        issued |->
                            [call.issued EXCEPT ![client] =
                                IF r.reqs = <<>> THEN @
                                ELSE r.reqs[Len(r.reqs)].at],
                        issued_before |-> call.issued[client]]
            /\ UNCHANGED <<batchVars, threads>>

\* A search on the one client of the run.
Search(client, query, entity_type, bypass_cache, scripts) ==
    /\ call.client \in {None, client}
    /\ call.n < MaxCalls
    /\ SearchStep(client, query, entity_type, bypass_cache, scripts)

\* linker.link_batch(ents, srcs, min_conf, max_cands), up to its loop.
LinkBatch(ents, srcs, min_conf, max_cands) ==
    /\ pc = "idle"
    /\ entities' = ents
    /\ sources' = srcs
    /\ min_confidence' = min_conf
    /\ max_candidates' = max_cands
    /\ linked_entities' = <<>>
    /\ stats' = LinkingStatistics(Len(ents))
    /\ pc' = "loop"
    /\ UNCHANGED <<link, now, cache, last_request_time, heap, call,
                   threads>>

\* One turn of link_batch's loop: link_entity on the next mention, append,
\* count.  An exception that leaves link_entity leaves link_batch too.
LinkBatchIteration ==
    /\ pc = "loop"
    /\ Len(linked_entities) < Len(entities)
    /\ LET entity == entities[Len(linked_entities) + 1]
           w == World(now, cache, last_request_time, heap)
       IN  \E inp_w \in
                  (IF entity.entity_type # None /\ asks_wikidata(sources)
                   THEN SearchInputs(WikidataScripts, "wikidata", now,
                                     cache["wikidata"],
                                     entity.text,
                                     map_to_wikidata_type(
                                         entity.entity_type), FALSE)
                   ELSE {NoInput}) :
             \E s1 \in {wikidata_stage(w, entity.text, entity.entity_type,
                                       sources, inp_w)} :
                 \E inp_d \in
                        (IF entity.entity_type # None
                            /\ asks_dbpedia(sources, s1)
                         THEN SearchInputs(DBpediaScripts, "dbpedia",
                                           s1.world.now,
                                           s1.world.cache["dbpedia"],
                                           entity.text,
                                           map_to_dbpedia_type(
                                               entity.entity_type), FALSE)
                         ELSE {NoInput}) :
                   \E res \in {link_entity(w, entity.text,
                                           entity.entity_type,
                                           entity.context, sources,
                                           min_confidence, max_candidates,
                                           inp_w, inp_d)} :
                       /\ now' = res.world.now
                       /\ cache' = res.world.cache
                       /\ last_request_time' = res.world.last
                       /\ heap' = res.world.heap
                       /\ link' = [mention |-> entity,
                                   propagated |-> res.propagated,
                                   entity |-> res.entity,
                                   events |-> res.events,
                                   returned |-> res.returned,
                                   gathered |-> res.gathered,
                                   caught |-> res.caught,
                                   disambiguated |-> res.disambiguated,
                                   dis |-> res.dis]
                       /\ IF res.propagated # None
                          THEN /\ pc' = "raised"
                               /\ UNCHANGED <<linked_entities, stats>>
                          ELSE /\ pc' = "loop"
                               /\ linked_entities' =
                                      Append(linked_entities, res.entity)
                               /\ stats' =
                                      count_status(stats,
                                          res.entity.linking_status)
                       /\ UNCHANGED <<call, sources, min_confidence,
                                      max_candidates, entities, threads>>

\* link_batch returns its LinkingResult.
LinkBatchReturn ==
    /\ pc = "loop"
    /\ Len(linked_entities) = Len(entities)
    /\ pc' = "done"
    /\ UNCHANGED <<now, cache, last_request_time, heap, call, sources,
                   min_confidence, max_candidates, entities,
                   linked_entities, stats, link, threads>>

\* The lookup clients, called directly.
NextClient ==
    \/ Tick
    \/ \E client \in Clients, args \in SearchArgs, bypass_cache \in BOOLEAN :
           Search(client, args[1], args[2], bypass_cache,
                  CacheScripts(client))

SpecClient == Init /\ [][NextClient]_vars

\* A search on either client.
SearchEither(client, query, entity_type, bypass_cache, scripts) ==
    /\ call.n < MaxCalls
    /\ SearchStep(client, query, entity_type, bypass_cache, scripts)

\* Both lookup clients, called in any order.
NextBoth ==
    \/ Tick
    \/ \E client \in Clients, args \in BothArgs, bypass_cache \in BOOLEAN :
           SearchEither(client, args[1], args[2], bypass_cache,
                        BothScripts(client))

SpecBoth == Init /\ [][NextBoth]_vars

(***************************************************************************)
(* Concurrent calls of search: each thread runs search statement by        *)
(* statement, the threads interleaved in any order.  Nothing in the        *)
(* clients holds a lock.                                                   *)
(***************************************************************************)
\* Thread t calls client.search(query, entity_type, bypass_cache): the test
\* for an empty query and "not bypass_cache and cache_key in self._cache".
ThreadSearch(t, client, query, entity_type, bypass_cache, scripts) ==
    /\ threads[t].pc = "idle"
    /\ \E inp \in SearchInputs(scripts, client, now,
                               cache[client], query, entity_type,
                               bypass_cache) :
           /\ inp.gap = 0
           /\ threads' =
                  [threads EXCEPT ![t] =
                      [IdleThread EXCEPT
                          !.client = client, !.query = query,
                          !.entity_type = entity_type,
                          !.bypass_cache = bypass_cache,
                          !.script = inp.script,
                          !.stage = IF client = "wikidata" THEN "api"
                                    ELSE "lookup",
                          !.pc = IF IsEmptyQuery(query) THEN "done"
                                 ELSE IF takes_cache(client, cache[client],
                                             now, query, entity_type,
                                             bypass_cache)
                                 THEN "read"
                                 ELSE "elapsed"]]
    /\ UNCHANGED <<now, cache, last_request_time, heap, call,
                   batchVars>>

\* "cached_result = self._cache[cache_key]; cached_result.from_cache = True;
\* return cached_result"
ThreadRead(t) ==
    LET th == threads[t]
    IN  /\ th.pc = "read"
        /\ \E r \in {cache_hit([now |-> now,
                                 last |-> last_request_time[th.client],
                                 reqs |-> <<>>],
                                cache[th.client], heap,
                                get_cache_key(th.client, th.query,
                                              th.entity_type), 0)} :
               /\ cache' = [cache EXCEPT ![th.client] = r.cache]
               /\ heap' = r.heap
               /\ threads' = [threads EXCEPT ![t].pc = "done",
                                             ![t].ref = r.ref,
                                             ![t].raised = r.raised]
        /\ UNCHANGED <<now, last_request_time, call,
                   batchVars>>

\* _rate_limit: "elapsed = time.time() - self._last_request_time" and the
\* test of elapsed; the thread then sleeps or goes on to the stamp.
ThreadElapsed(t) ==
    LET th == threads[t]
        elapsed == now - last_request_time[th.client]
    IN  /\ th.pc = "elapsed"
        /\ threads' =
               IF elapsed < MIN_REQUEST_INTERVAL(th.client)
               THEN [threads EXCEPT
                        ![t].pc = "sleeping",
                        ![t].wake = now + (MIN_REQUEST_INTERVAL(th.client)
                                               - elapsed),
                        ![t].resume = "stamp"]
               ELSE [threads EXCEPT ![t].pc = "stamp"]
        /\ UNCHANGED <<now, cache, last_request_time, heap, call,
                   batchVars>>

\* time.sleep returns: the clock is at the end of the sleep, or past it.
ThreadWake(t) ==
    LET th == threads[t]
    IN  /\ th.pc = "sleeping"
        /\ now' = MaxOf(now, th.wake)
        /\ threads' = [threads EXCEPT ![t].pc = th.resume]
        /\ UNCHANGED <<cache, last_request_time, heap, call,
                   batchVars>>

\* _rate_limit: "self._last_request_time = time.time()"
ThreadStamp(t) ==
    LET th == threads[t]
    IN  /\ th.pc = "stamp"
        /\ last_request_time' =
               [last_request_time EXCEPT ![th.client] = now]
        /\ threads' = [threads EXCEPT ![t].pc = "request"]
        /\ UNCHANGED <<now, cache, heap, call,
                   batchVars>>

\* "self._client.get(...)": the HTTP request is issued.
ThreadRequest(t) ==
    LET th == threads[t]
    IN  /\ th.pc = "request"
        /\ threads' = [threads EXCEPT
                          ![t].pc = "response",
                          ![t].reqs = Append(@, [at |-> now,
                                                 to |-> th.stage])]
        /\ UNCHANGED <<now, cache, last_request_time, heap, call,
                   batchVars>>

\* The end of search for thread th, whose last request was answered by
\* outcome: the candidates are scored, sorted and cut, the result is stored
\* in the cache and returned.
thread_finish(th, outcome, t, es, hp) ==
    LET m == [now |-> t, last |-> 0, reqs |-> th.reqs]
        candidates ==
            IF outcome.kind # "ok" THEN <<>>
            ELSE IF th.stage = "api"
            THEN wikidata_api_candidates(th.query, th.entity_type,
                                         outcome.docs)
            ELSE IF th.stage = "lookup"
            THEN dbpedia_candidates(th.query, th.entity_type, outcome.docs)
            ELSE wikidata_sparql_candidates(th.query, th.entity_type,
                                            outcome.docs)
    IN  IF outcome.kind = "malformed"
        THEN SearchDone(m, es, hp, 0, NoObj, MalformedMessage, {})
        ELSE store_and_return(th.client, m, es, hp, th.query,
                              th.entity_type,
                              limit_results(sort_by_confidence(candidates)),
                              outcome.kind = "ok")

\* The answer to the thread's request arrives: search ends, or goes on to
\* the SPARQL fallback, or sleeps 5 s after a 429 and asks again.
ThreadResponse(t) ==
    LET th == threads[t]
        outcome == IF th.stage = "sparql" THEN th.script.sparql
                   ELSE IF th.stage = "retry" THEN th.script.retry
                   ELSE th.script.first
        falls_back == /\ th.stage = "api"
                      /\ ~(outcome.kind \in {"ok", "malformed"}
                             /\ outcome.docs # <<>>)
        retries == th.stage = "sparql" /\ outcome.kind = "r429"
    IN  /\ th.pc = "response"
        /\ IF falls_back
           THEN /\ threads' = [threads EXCEPT ![t].pc = "elapsed",
                                              ![t].stage = "sparql"]
                /\ UNCHANGED <<cache, heap>>
           ELSE IF retries
           THEN /\ threads' = [threads EXCEPT
                                  ![t].pc = "sleeping",
                                  ![t].wake = now + RETRY_SLEEP,
                                  ![t].resume = "elapsed",
                                  ![t].stage = "retry"]
                /\ UNCHANGED <<cache, heap>>
           ELSE \E r \in {thread_finish(th, outcome, now,
                                         cache[th.client], heap)} :
                    /\ cache' = [cache EXCEPT ![th.client] = r.cache]
                    /\ heap' = r.heap
                    /\ threads' = [threads EXCEPT ![t].pc = "done",
                                                  ![t].ref = r.ref,
                                                  ![t].raised = r.raised]
        /\ UNCHANGED <<now, last_request_time, call,
                   batchVars>>

NextThreads ==
    \/ Tick
    \/ \E t \in Threads, client \in Clients,
          args \in {<<EPA, None>>, <<Blank, None>>},
          bypass_cache \in BOOLEAN :
           ThreadSearch(t, client, args[1], args[2], bypass_cache,
               IF client = "wikidata"
               THEN {Script(Outcome("ok", <<"Q1">>), Unused, Unused),
                     Script(Outcome("fail", <<>>), Outcome("r429", <<>>),
                            Outcome("ok", <<"Q1">>))}
               ELSE {Script(Outcome("ok", <<"R1">>), Unused, Unused),
                     Script(Outcome("fail", <<>>), Unused, Unused)})
    \/ \E t \in Threads : ThreadRead(t)
    \/ \E t \in Threads : ThreadElapsed(t)
    \/ \E t \in Threads : ThreadWake(t)
    \/ \E t \in Threads : ThreadStamp(t)
    \/ \E t \in Threads : ThreadRequest(t)
    \/ \E t \in Threads : ThreadResponse(t)

SpecThreads == Init /\ [][NextThreads]_vars

\* The linker over the lookup clients and the disambiguator.
Next ==
    \/ \E ents \in MentionLists, srcs \in LinkingSources,
          min_conf \in MinConfidences, max_cands \in MaxCandidates :
           LinkBatch(ents, srcs, min_conf, max_cands)
    \/ LinkBatchIteration
    \/ LinkBatchReturn

Spec == Init /\ [][Next]_vars

(***************************************************************************)
(* Properties of the linker (Spec).                                        *)
(***************************************************************************)
\* link holds a link_entity call.
LinkEntityCalled == link.mention.text # NoStr

\* link_entity returned (no exception left it).
LinkEntityReturned == LinkEntityCalled /\ link.propagated = None

\* The place of event e among the events of the link_entity call, 0 when it
\* did not happen.
EventAt(e) ==
    IF \E i \in 1..Len(link.events) : link.events[i] = e
    THEN CHOOSE i \in 1..Len(link.events) : link.events[i] = e
    ELSE 0

Searched(client) == EventAt(<<client, "call">>) # 0

\* C1: in link_entity, given an entity type that is a string, Wikidata is
\* searched iff the selection is WIKIDATA or BOTH; DBpedia is searched iff
\* the selection is DBPEDIA, or it is BOTH and the Wikidata search returned
\* zero candidates; when both are searched the Wikidata search has returned
\* before the DBpedia search starts.
C1_SourceOrder ==
    (LinkEntityCalled /\ link.mention.entity_type # None) =>
        /\ Searched("wikidata") <=> sources \in {"wikidata", "both"}
        /\ Searched("dbpedia") <=>
               \/ sources = "dbpedia"
               \/ sources = "both" /\ link.returned.wikidata = 0
        /\ (Searched("wikidata") /\ Searched("dbpedia")) =>
               /\ EventAt(<<"wikidata", "return">>) # 0
               /\ EventAt(<<"wikidata", "return">>)
                      < EventAt(<<"dbpedia", "call">>)

\* The fallback: BOTH selected, Wikidata returned nothing, DBpedia answered.
C1_Witness ==
    /\ LinkEntityCalled
    /\ sources = "both"
    /\ link.returned.wikidata = 0
    /\ link.returned.dbpedia > 0
    /\ link.events = << <<"wikidata", "call">>, <<"wikidata", "return">>,
                        <<"dbpedia", "call">>, <<"dbpedia", "return">> >>

\* C2: when a lookup client's search or the disambiguator raises during
\* link_entity, link_entity returns a LinkedEntity with status error,
\* needs_review true, error the exception's message, confidence 0 and no
\* external identifier.
C2_ErrorRecord ==
    (LinkEntityCalled /\ link.caught.by # None) =>
        /\ link.propagated = None
        /\ link.entity.linking_status = "error"
        /\ link.entity.needs_review
        /\ link.entity.error = link.caught.message
        /\ link.entity.linking_confidence = 0
        /\ link.entity.wikidata_id = None
        /\ link.entity.dbpedia_uri = None
        /\ link.entity.text = link.mention.text
        /\ link.entity.entity_type = link.mention.entity_type

\* The disambiguator raised after a search returned candidates.
C2_Witness ==
    /\ LinkEntityCalled
    /\ link.caught.by = "disambiguator"
    /\ link.entity.error = NotAStrMessage
    /\ link.returned.wikidata > 0

\* C3: link_batch returns one LinkedEntity per mention, in input order, and
\* no mention's failure aborts the batch.
C3_OnePerMention ==
    /\ pc # "raised"
    /\ pc = "done" =>
           /\ Len(linked_entities) = Len(entities)
           /\ \A i \in 1..Len(entities) :
                  /\ linked_entities[i].text = entities[i].text
                  /\ linked_entities[i].entity_type =
                         entities[i].entity_type

\* The number of records with the status among those appended so far.
Records(status) ==
    Cardinality({i \in 1..Len(linked_entities) :
                    linked_entities[i].linking_status = status})

\* C4: each counter is the number of records appended so far with that
\* status, and once link_batch has returned total = n = the number of
\* records = the sum of the counters.
C4_Statistics ==
    /\ stats.linked = Records("linked")
    /\ stats.needs_review = Records("needs_review")
    /\ stats.not_found = Records("not_found")
    /\ stats.errors = Records("error")
    /\ pc # "idle" => stats.total = Len(entities)
    /\ pc = "done" =>
           /\ Len(linked_entities) = stats.total
           /\ stats.linked + stats.needs_review + stats.not_found
                  + stats.errors = stats.total

\* A batch of two with an error and a link has returned.
C4_Witness ==
    /\ pc = "done"
    /\ stats.total = 2
    /\ stats.errors = 1
    /\ stats.linked = 1

\* C5: when the disambiguator returns a match, the status is linked if the
\* result's confidence is at least min_confidence and needs_review if not.
C5_StatusByThreshold ==
    (LinkEntityCalled /\ link.disambiguated /\ link.dis.has_match) =>
        link.entity.linking_status =
            IF link.dis.confidence >= min_confidence THEN "linked"
            ELSE "needs_review"

\* A match whose confidence is exactly min_confidence, above zero.
C5_Witness ==
    /\ LinkEntityCalled
    /\ link.disambiguated
    /\ link.dis.has_match
    /\ min_confidence > 0
    /\ link.dis.confidence = min_confidence
    /\ link.entity.linking_status = "linked"

\* The sources link_entity searched all returned, with zero candidates.
AllSourcesEmpty ==
    /\ LinkEntityReturned
    /\ Searched("wikidata") \/ Searched("dbpedia")
    /\ Searched("wikidata") => link.returned.wikidata = 0
    /\ Searched("dbpedia") => link.returned.dbpedia = 0

\* C6: when every source queried returns zero candidates, link_entity
\* returns status not_found, needs_review true, confidence 0, no source and
\* no external identifier.
C6_NotFound ==
    AllSourcesEmpty =>
        /\ link.entity.linking_status = "not_found"
        /\ link.entity.needs_review
        /\ link.entity.linking_confidence = 0
        /\ link.entity.linking_source = None
        /\ link.entity.wikidata_id = None
        /\ link.entity.dbpedia_uri = None

\* Both sources were queried for a mention with a text, and the DBpedia
\* lookup failed.
C6_Witness ==
    /\ AllSourcesEmpty
    /\ ~IsEmptyQuery(link.mention.text)
    /\ Searched("wikidata") /\ Searched("dbpedia")
    /\ \E i \in 1..Len(heap) :
           /\ heap[i].client = "dbpedia"
           /\ ~heap[i].ok
           /\ heap[i].query = link.mention.text

\* The alternatives of the claim: the first min(max_candidates, n) of the
\* disambiguator's ranked candidates.
FirstRanked ==
    LET n == MinOf(max_candidates, Len(link.dis.all_candidates))
    IN  [i \in 1..n |-> to_dict(link.dis.all_candidates[i])]

\* C7: a mention that needs review, by the threshold check or by the
\* disambiguator's flag, carries the first min(max_candidates, n) ranked
\* candidates; one that needs no review carries none.
C7_Alternatives ==
    (LinkEntityCalled /\ link.disambiguated) =>
        LET review == \/ link.entity.linking_status = "needs_review"
                      \/ link.dis.needs_review
        IN  link.entity.candidates = IF review THEN FirstRanked ELSE <<>>

\* C17: link_entity called with an empty or whitespace-only text (and an
\* entity type that is a string), whatever the source selection and
\* min_confidence, returns a record whose status is error or not_found,
\* never linked.
C17_EmptyMention ==
    (/\ LinkEntityCalled
     /\ Strip(link.mention.text) = <<>>
     /\ link.mention.entity_type # None) =>
        /\ link.propagated = None
        /\ link.entity.linking_status # "linked"
        /\ link.entity.linking_status \in {"error", "not_found"}

\* A whitespace-only mention under BOTH with min_confidence 0: both clients
\* were asked and the record is not_found.
C17_Witness ==
    /\ LinkEntityReturned
    /\ link.mention.text = Blank
    /\ sources = "both"
    /\ min_confidence = 0
    /\ Searched("wikidata") /\ Searched("dbpedia")
    /\ link.entity.linking_status = "not_found"

\* The final scores of the candidates disambiguate ranked, best first.
FinalScore(i) == link.dis.all_candidates[i].final_score

\* C20: for a non-empty candidate list, disambiguate returns needs_review
\* true iff the top final score is below 0.7 or there are at least two
\* candidates and the top two final scores differ by less than 0.1.
C20_ReviewFlag ==
    (LinkEntityCalled /\ link.disambiguated) =>
        /\ Len(link.dis.all_candidates) > 0
        /\ \A i \in 1..(Len(link.dis.all_candidates) - 1) :
               FinalScore(i) >= FinalScore(i + 1)
        /\ link.dis.needs_review <=>
               \/ FinalScore(1) < 700000
               \/ /\ Len(link.dis.all_candidates) >= 2
                  /\ FinalScore(1) - FinalScore(2) < 100000

\* A near-tie of two candidates that both score at least 0.7.
C20_Witness ==
    /\ LinkEntityCalled
    /\ link.disambiguated
    /\ Len(link.dis.all_candidates) >= 2
    /\ FinalScore(2) >= 700000
    /\ FinalScore(1) - FinalScore(2) < 100000
    /\ link.dis.needs_review

\* The result of the disambiguate call link_entity made.
Disambiguated == LinkEntityCalled /\ link.disambiguated

\* C21: in every DisambiguationResult, match is present iff candidates
\* were supplied and the top final score is at least 0.5, and confidence is
\* the winner's final_score when a match is present and 0 when no match is
\* emitted.
C21_MatchAndConfidence ==
    Disambiguated =>
        /\ link.dis.has_match <=>
               /\ Len(link.dis.all_candidates) > 0
               /\ FinalScore(1) >= 500000
        /\ link.dis.confidence =
               IF link.dis.has_match THEN FinalScore(1) ELSE 0

\* C22: each scored candidate's final_score is 0.4*type + 0.3*name +
\* 0.3*context when a context was supplied and 0.5*type + 0.5*name when not
\* (an absent, empty or whitespace-only context is not supplied and gives
\* the context score 0.5), times 0.8 iff the mention is in the
\* ambiguous-name table and no context was supplied.
C22_FinalScore ==
    Disambiguated =>
        LET context == link.mention.context
            supplied == context # NoStr /\ Strip(context) # <<>>
            ambiguous ==
                normalize_text(link.mention.text) \in AMBIGUOUS_NAMES
        IN  \A i \in 1..Len(link.dis.all_candidates) :
                LET c == link.dis.all_candidates[i]
                    weighted ==
                        IF supplied
                        THEN 400 * c.type_score + 300 * c.name_score
                             + 300 * c.context_score
                        ELSE 500 * c.type_score + 500 * c.name_score
                IN  /\ ~supplied => c.context_score = 500
                    /\ c.final_score =
                           IF ambiguous /\ ~supplied
                           THEN (weighted * 8) \div 10
                           ELSE weighted

\* An ambiguous name with a context of blanks: the candidate that matches
\* name and type is scored 0.8.
C22_Witness ==
    /\ Disambiguated
    /\ link.mention.text = FBI
    /\ link.mention.context = Blank
    /\ link.dis.all_candidates[1].type_score = 1000
    /\ link.dis.all_candidates[1].name_score = 1000
    /\ link.dis.all_candidates[1].context_score = 500
    /\ FinalScore(1) = 800000

\* disambiguate was called with one candidate that matches the name and
\* the declared type of a mention whose text is a known ambiguous name.
AmbiguousSingleMatch ==
    /\ Disambiguated
    /\ normalize_text(link.mention.text) \in AMBIGUOUS_NAMES
    /\ Len(link.dis.all_candidates) = 1
    /\ link.dis.all_candidates[1].name_score = 1000
    /\ link.dis.all_candidates[1].type_score = 1000

\* The confidence disambiguate returns for the mention and the candidates
\* of the call when no context is passed.
ConfidenceWithoutContext ==
    disambiguate(link.mention.text, map_entity_type(link.mention.entity_type),
                 link.dis.all_candidates, NoStr).confidence

\* The words other than stop words the context of the call shares with the
\* description of its first candidate.
SharedWords ==
    ContentWords(link.mention.context)
        \cap ContentWords(Doc(link.dis.all_candidates[1].id).description)

MatchesAnAlias(c) ==
    \E k \in 1..Len(c.aliases) :
        \/ normalize_text(link.mention.text) = normalize_text(c.aliases[k])
        \/ /\ is_acronym(link.mention.text)
           /\ matches_acronym(link.mention.text, c.aliases[k])

\* C24: whenever the mention text equals (after normalization) one of the
\* candidate's aliases, or is an acronym that matches one of them, the
\* candidate's name score is at least 0.9, whatever the relation between
\* the mention and the candidate's label.
C24_AliasScore ==
    Disambiguated =>
        \A i \in 1..Len(link.dis.all_candidates) :
            MatchesAnAlias(link.dis.all_candidates[i]) =>
                link.dis.all_candidates[i].name_score >= 900

\* Whether the ranked candidate r is the candidate g that was passed in:
\* everything but the scores is the same.
SameCandidate(r, g) ==
    /\ r.id = g.id
    /\ r.source = g.source
    /\ r.types = g.types
    /\ r.aliases = g.aliases
    /\ r.original_confidence = g.original_confidence

\* C25: the candidate list of a DisambiguationResult holds exactly the
\* candidates passed in (none dropped, none duplicated), ordered by
\* final_score non-increasing with candidates of equal score in their input
\* order, and the match, when present, is the first element of the list.
C25_RankedList ==
    Disambiguated =>
        LET given == link.gathered
            ranked == link.dis.all_candidates
            n == Len(given)
        IN  /\ Len(ranked) = n
            /\ \E f \in [1..n -> 1..n] :
                   /\ \A i, j \in 1..n : i # j => f[i] # f[j]
                   /\ \A i \in 1..n : SameCandidate(ranked[i], given[f[i]])
                   /\ \A i, j \in 1..n :
                          i < j =>
                              \/ ranked[i].final_score
                                     > ranked[j].final_score
                              \/ /\ ranked[i].final_score
                                        = ranked[j].final_score
                                 /\ f[i] < f[j]
            /\ link.dis.has_match =>
                   /\ link.entity.linking_source = ranked[1].source
                   /\ ranked[1].id \in {link.entity.wikidata_id,
                                        link.entity.dbpedia_uri}

\* Two candidates of equal score, ranked in the order they were passed in,
\* the first of them the match.
C25_Witness ==
    /\ Disambiguated
    /\ Len(link.gathered) = 2
    /\ link.gathered[1].id # link.gathered[2].id
    /\ FinalScore(1) = FinalScore(2)
    /\ link.dis.all_candidates[1].id = link.gathered[1].id
    /\ link.dis.all_candidates[2].id = link.gathered[2].id
    /\ link.dis.has_match
    /\ link.entity.wikidata_id = link.gathered[1].id

\* The disambiguator emitted a match for the link_entity call.
MatchEmitted == Disambiguated /\ link.dis.has_match

\* C26: when a match is emitted, link_entity sets the source to the match's
\* source and fills only the identifier of that source with the match's id
\* (wikidata_id and wikidata_url for a Wikidata match, dbpedia_uri for a
\* DBpedia match); when no match is emitted every identifier stays unset;
\* wikidata_id and dbpedia_uri are never both set.
C26_Identifiers ==
    LinkEntityReturned =>
        LET e == link.entity
            match == link.dis.all_candidates[1]
        IN  /\ (MatchEmitted /\ match.source = "wikidata") =>
                   /\ e.linking_source = "wikidata"
                   /\ e.wikidata_id = match.id
                   /\ e.wikidata_url = wikidata_url_of(match.id)
                   /\ e.dbpedia_uri = None
            /\ (MatchEmitted /\ match.source = "dbpedia") =>
                   /\ e.linking_source = "dbpedia"
                   /\ e.dbpedia_uri = match.id
                   /\ e.wikidata_id = None
                   /\ e.wikidata_url = NoStr
            /\ MatchEmitted => match.source \in {"wikidata", "dbpedia"}
            /\ ~MatchEmitted =>
                   /\ e.linking_source = None
                   /\ e.wikidata_id = None
                   /\ e.wikidata_url = NoStr
                   /\ e.dbpedia_uri = None
            /\ ~(e.wikidata_id # None /\ e.dbpedia_uri # None)

\* Under BOTH, Wikidata returned nothing and the match is DBpedia's.
C26_Witness ==
    /\ MatchEmitted
    /\ sources = "both"
    /\ link.returned.wikidata = 0
    /\ link.entity.linking_source = "dbpedia"
    /\ link.entity.dbpedia_uri = "R1"
    /\ link.entity.wikidata_id = None

\* C28: in every link_entity call, the candidates handed to the
\* disambiguator come from a single source and number at most 5, so the
\* alternatives attached to a LinkedEntity never exceed 5 (hence never 10),
\* whatever max_candidates is passed.
C28_AtMostFive ==
    /\ LinkEntityCalled =>
           /\ \A i, j \in 1..Len(link.gathered) :
                  link.gathered[i].source = link.gathered[j].source
           /\ Len(link.gathered) <= 5
           /\ Len(link.dis.all_candidates) <= 5
           /\ Len(link.entity.candidates) <= 5
    /\ \A i \in 1..Len(linked_entities) :
           Len(linked_entities[i].candidates) <= 5

\* A source answered with six entries, five candidates were handed to the
\* disambiguator, and with max_candidates 10 all five are attached.
C28_Witness ==
    /\ Disambiguated
    /\ max_candidates = 10
    /\ \E i \in 1..Len(heap) :
           /\ heap[i].client = "dbpedia"
           /\ heap[i].query = link.mention.text
           /\ Len(heap[i].candidates) = 5
    /\ Len(link.gathered) = 5
    /\ link.gathered[1].source = "dbpedia"
    /\ Len(link.entity.candidates) = 5

\* C29: every LinkedEntity link_entity returns with status not_found has
\* confidence 0 and no alternatives; not_found is returned only when no
\* candidates were gathered from the sources queried.
C29_NotFoundOnlyWithoutCandidates ==
    (LinkEntityReturned /\ link.entity.linking_status = "not_found") =>
        /\ link.entity.linking_confidence = 0
        /\ link.entity.candidates = <<>>
        /\ link.gathered = <<>>

\* C30: in every LinkedEntity link_entity returns, needs_review is true
\* whenever the status is needs_review, not_found or error, and false
\* whenever the status is linked, for every min_confidence in [0, 1].
C30_FlagAgreesWithStatus ==
    LinkEntityReturned =>
        /\ link.entity.linking_status
               \in {"needs_review", "not_found", "error"}
               => link.entity.needs_review
        /\ link.entity.linking_status = "linked"
               => ~link.entity.needs_review

(***************************************************************************)
(* Properties of the lookup clients (SpecClient).                          *)
(***************************************************************************)
\* call holds a search with a query that is not empty.
Searching == call.client # None /\ ~IsEmptyQuery(call.query)

\* The search of call went to the external service.
External == call.reqs # <<>>

\* The search of call returned a cached object.
Hit == Searching /\ ~External /\ call.raised = None

\* C8: a search with a non-empty query issues an external request iff
\* bypass_cache is true or the cache holds no live entry for the key; a hit
\* with bypass_cache false issues none and leaves the last request time as
\* it was.
C8_ExternalIff ==
    Searching =>
        /\ External <=> (call.bypass_cache \/ ~call.live)
        /\ (~call.bypass_cache /\ call.live) =>
               /\ call.reqs = <<>>
               /\ call.last_after = call.last_before

\* A hit after an earlier request of the same client.
C8_Witness ==
    /\ Searching
    /\ ~call.bypass_cache
    /\ call.live
    /\ call.obj.from_cache
    /\ call.last_before > 0
    /\ call.at > call.last_before

\* The results built by the searches before the one call holds.
EarlierResults ==
    {i \in 1..Len(heap) :
        ~(External /\ call.raised = None /\ i = call.ref)}

\* The search of call has the lowercased, trimmed query and the type of the
\* search that built heap[i], on the same client.
SameSearch(i) ==
    /\ heap[i].client = call.client
    /\ Strip(Lower(heap[i].query)) = Strip(Lower(call.query))
    /\ heap[i].entity_type = call.entity_type

\* A hit returns a result built for the same normalized query and type.
HitsOwnKey == Hit => (call.ref \in 1..Len(heap) /\ SameSearch(call.ref))

\* C9 as stated: a search with bypass_cache false within the TTL of an
\* earlier external search with the same normalized query and type returns
\* from_cache true and the candidates of that search; a search that differs
\* in one of them does not hit its entry.
C9_AsStated ==
    /\ \A i \in EarlierResults :
           (/\ Searching
            /\ ~call.bypass_cache
            /\ SameSearch(i)
            /\ call.at < heap[i].at + cache_ttl) =>
               /\ call.raised = None
               /\ call.obj.from_cache
               /\ call.obj.candidates = heap[i].candidates
    /\ HitsOwnKey

\* C9: the same, for an earlier search whose entry is still in the cache
\* when the later search looks (no external search for the key replaced it,
\* the size cap did not evict it) and has not expired when it is read.
C9_WhileEntryKept ==
    /\ \A i \in EarlierResults :
           (/\ Searching
            /\ ~call.bypass_cache
            /\ SameSearch(i)
            /\ i \in call.live_refs
            /\ call.returned_at < heap[i].at + cache_ttl) =>
               /\ call.raised = None
               /\ ~External
               /\ call.ref = i
               /\ call.obj.from_cache
               /\ call.obj.candidates = heap[i].candidates
    /\ HitsOwnKey

\* A hit on the entry of a query that was written differently, some time
\* after it was stored.
C9_Witness ==
    /\ Hit
    /\ call.ref \in 1..Len(heap)
    /\ heap[call.ref].query # call.query
    /\ call.obj.candidates # <<>>
    /\ call.at > heap[call.ref].at

\* No result of a successful lookup is stored for the key of call.
NoStoredSuccess ==
    \A i \in EarlierResults :
        (heap[i].client = call.client /\ heap[i].key = call.obj.key) =>
            ~heap[i].ok

\* C10: an external search that succeeded has stored its result when it
\* returns; one that failed leaves the entry of the key as it was; and a
\* search with bypass_cache false for a key with no stored success goes to
\* the external service.
C10_StoreOnSuccess ==
    /\ (Searching /\ External /\ call.raised = None) =>
           IF call.obj.ok THEN call.entry_after = call.ref
           ELSE call.entry_after = call.entry_before
    /\ (Searching /\ ~call.bypass_cache /\ call.raised = None
        /\ NoStoredSuccess) => External


\* C11: a result returned by a search that went to the external service has
\* from_cache false when it is returned, and every result so returned still
\* has from_cache false after later searches for its key were served from
\* the cache.
C11_FromCacheStaysFalse ==
    /\ (Searching /\ External /\ call.raised = None) => ~call.obj.from_cache
    /\ \A i \in 1..Len(heap) : ~heap[i].from_cache

\* C12: a search with bypass_cache false returns no entry that has expired
\* when it is read, and an entry that expires between the membership test
\* and the read sends the search to the external service: the search does
\* not fail with the cache's KeyError.
C12_NoExpiredEntry ==
    (Searching /\ ~call.bypass_cache) =>
        /\ Hit => call.returned_at < heap[call.ref].at + cache_ttl
        /\ call.raised # "KeyError"


\* Every HTTP request of the search of call failed (timeout, transport
\* error or non-2xx status): the lookup of DBpedia, or both the
\* wbsearchentities request and the SPARQL request of Wikidata.
AllRequestsFailed ==
    /\ Searching
    /\ External
    /\ call.script.first.kind = "fail"
    /\ call.client = "wikidata" => sparql_result(call.script).kind = "fail"

\* C13: when the external call fails, search raises nothing and returns a
\* result with zero candidates and no error, which differs from the result
\* of an empty query.
C13_SoftFailure ==
    AllRequestsFailed =>
        /\ call.raised = None
        /\ call.obj.candidates = <<>>
        /\ call.obj.error = None
        /\ call.obj.error # "Empty query"

\* Wikidata's wbsearchentities request and its SPARQL fallback both failed.
C13_Witness ==
    /\ AllRequestsFailed
    /\ call.client = "wikidata"
    /\ Len(call.reqs) = 2
    /\ call.reqs[1].to = "api"
    /\ call.reqs[2].to = "sparql"
    /\ call.raised = None
    /\ call.obj.candidates = <<>>


\* The search of call is a Wikidata search that went to the service.
WikidataLookup == Searching /\ External /\ call.client = "wikidata"

\* The search of call issued the SPARQL fallback request.
SparqlRequested == \E k \in 1..Len(call.reqs) : call.reqs[k].to = "sparql"

RequestBefore(k) ==
    IF k > 1 THEN call.reqs[k - 1].at ELSE call.issued_before

\* C14: every HTTP request of a client is issued at least the client's
\* MIN_REQUEST_INTERVAL after the client's request before it, the SPARQL
\* fallback and the retry after a 429 included; and the first request of a
\* search waits for the client's own interval only, whatever the other
\* client has requested.
C14_RateLimited ==
    call.client # None =>
        /\ \A k \in 1..Len(call.reqs) :
               RequestBefore(k) # 0 =>
                   call.reqs[k].at - RequestBefore(k)
                       >= MIN_REQUEST_INTERVAL(call.client)
        /\ call.reqs # <<>> =>
               call.reqs[1].at =
                   IF call.issued_before = 0 THEN call.at
                   ELSE MaxOf(call.at,
                              call.issued_before
                                  + MIN_REQUEST_INTERVAL(call.client))

\* A Wikidata search called within the interval of Wikidata's last request
\* and after a later request of DBpedia, which issued the wbsearchentities
\* request, the SPARQL request and the retry after a 429.
C14_Witness ==
    /\ call.client = "wikidata"
    /\ Len(call.reqs) = 3
    /\ call.issued_before # 0
    /\ call.at - call.issued_before < WIKIDATA_MIN_REQUEST_INTERVAL
    /\ call.issued["dbpedia"] >= call.issued_before
    /\ call.issued["dbpedia"] # 0
    /\ call.reqs[1].at = call.issued_before + WIKIDATA_MIN_REQUEST_INTERVAL
    /\ call.reqs[3].at >= call.reqs[2].at + RETRY_SLEEP


\* call holds a search with an empty or whitespace-only query.
SearchingEmpty == call.client # None /\ Strip(call.query) = <<>>

\* C16: for an empty or whitespace-only query, whatever the type and
\* bypass_cache, search returns zero candidates with the error
\* "Empty query", issues no HTTP request and leaves the cache and the rate
\* limiter as they were.
C16_EmptyQuery ==
    SearchingEmpty =>
        /\ call.raised = None
        /\ call.obj.candidates = <<>>
        /\ call.obj.error = "Empty query"
        /\ call.reqs = <<>>
        /\ call.cache_same
        /\ call.last_after = call.last_before
        /\ call.issued[call.client] = call.issued_before

\* A whitespace-only query with bypass_cache true on a client whose cache
\* holds a live entry and whose rate limiter has been stamped.
C16_Witness ==
    /\ SearchingEmpty
    /\ call.query = Blank
    /\ call.bypass_cache
    /\ call.live_refs # {}
    /\ call.last_before > 0
    /\ call.obj.error = "Empty query"

\* The candidates the search of call built from the answer it used, before
\* the sort and the cut.
Parsed ==
    LET first == call.script.first
        sparql == sparql_result(call.script)
    IN  IF call.client = "dbpedia"
        THEN IF first.kind = "ok"
             THEN dbpedia_candidates(call.query, call.entity_type,
                                     first.docs)
             ELSE <<>>
        ELSE IF first.kind = "ok" /\ first.docs # <<>>
        THEN wikidata_api_candidates(call.query, call.entity_type,
                                     first.docs)
        ELSE IF sparql.kind = "ok"
        THEN wikidata_sparql_candidates(call.query, call.entity_type,
                                        sparql.docs)
        ELSE <<>>

\* The candidates of the result the search of call returned.
Kept == {call.obj.candidates[i] : i \in 1..Len(call.obj.candidates)}

\* C18: a result returned by search holds at most 5 candidates in order of
\* confidence, highest first; a search that went to the service keeps
\* min(5, n) of the n candidates it parsed, each one once, and every
\* candidate it drops has at most the confidence of every one it keeps.
C18_SortedAndCut ==
    (call.client # None /\ call.raised = None) =>
        LET cs == call.obj.candidates
        IN  /\ Len(cs) <= 5
            /\ \A i \in 1..(Len(cs) - 1) :
                   cs[i].confidence >= cs[i + 1].confidence
            /\ (Searching /\ External) =>
                   /\ Len(cs) = MinOf(5, Len(Parsed))
                   /\ Cardinality(Kept) = Len(cs)
                   /\ \A j \in 1..Len(Parsed) :
                          \/ Parsed[j] \in Kept
                          \/ \A i \in 1..Len(cs) :
                                 cs[i].confidence >= Parsed[j].confidence
                   /\ \A i \in 1..Len(cs) :
                          \E j \in 1..Len(Parsed) : cs[i] = Parsed[j]

\* DBpedia answered with six entries, the second of them the weakest: five
\* are kept, in another order than the answer's.
C18_Witness ==
    /\ Searching /\ External
    /\ call.client = "dbpedia"
    /\ call.raised = None
    /\ Len(Parsed) = 6
    /\ Len(call.obj.candidates) = 5
    /\ Parsed[2] \notin Kept
    /\ call.obj.candidates[1] = Parsed[3]

\* The confidence of candidate c of the search of call before the type
\* bonus: the base score with the alias bonus (Wikidata's API path) or the
\* popularity bonus (DBpedia).
BeforeTypeBonus(c) ==
    IF c.path = "lookup"
    THEN LET docs == call.script.first.docs
         IN  dbpedia_calculate_confidence(
                 call.query, c.doc, FALSE,
                 MaxOf(1, Max({Doc(docs[j]).ref_count :
                                  j \in 1..Len(docs)})))
    ELSE wikidata_calculate_confidence(call.query, c.doc, c.path = "api",
                                       FALSE)

\* C19: on every lookup path of both clients, a candidate's confidence is
\* its score before the type bonus plus 0.1 iff search was given a type,
\* capped at 1.0, and lies in [0, 1].
C19_TypeBonus ==
    (Searching /\ External /\ call.raised = None) =>
        \A i \in 1..Len(call.obj.candidates) :
            LET c == call.obj.candidates[i]
            IN  /\ c.confidence \in 0..1000
                /\ c.confidence =
                       MinOf(1000,
                             BeforeTypeBonus(c)
                                 + (IF call.entity_type # None
                                    THEN TYPE_BONUS ELSE 0))

(***************************************************************************)
(* Properties of concurrent searches (SpecThreads).                        *)
(***************************************************************************)
\* C15: under any interleaving of concurrent searches on one client, any
\* two HTTP requests of the client are issued at least its
\* MIN_REQUEST_INTERVAL apart.
C15_Serialized ==
    \A t1, t2 \in Threads :
        \A k1 \in 1..Len(threads[t1].reqs), k2 \in 1..Len(threads[t2].reqs) :
            (/\ threads[t1].client = threads[t2].client
             /\ <<t1, k1>> # <<t2, k2>>
             /\ threads[t1].reqs[k1].at <= threads[t2].reqs[k2].at) =>
                threads[t2].reqs[k2].at - threads[t1].reqs[k1].at
                    >= MIN_REQUEST_INTERVAL(threads[t1].client)

=============================================================================
